---- MODULE Spec2Model ----
(***************************************************************************)
(* Adhikar.ai: the document chunker, the ingestion and tenant-scoped       *)
(* retrieval pipeline, and the identity / session / message layer of       *)
(* src/archive_new/app.py, as state machines.                              *)
(*                                                                         *)
(* Strings are sequences of one-character strings.  Python offsets are     *)
(* 0-based and half-open; Slice converts them to SubSeq.                   *)
(***************************************************************************)
EXTENDS Integers, Sequences, FiniteSets, TLC

VARIABLES
    \* chunk_text (app.py 526-538): the argument and the locals of one call
    arg_text, text, chunk_size, overlap, start, chunks, ct_pc,
    \* the documents and doc_chunks collections, uuid4 / ObjectId / datetime.now
    \* as counters, and what the last ingest and the last search returned
    collection_docs, collection_chunks, next_uuid, next_oid, now,
    ingest_ret, search_ret,
    \* the users collection, what the last identity / session operation was
    \* given and returned, and the create_user calls in progress per thread
    users_collection, last, race,
    \* the chat_messages collection: session_start records and messages
    chat_collection,
    \* st.session_state of one browser session (lines 985-992), and the
    \* st.error / st.warning / st.success texts of the last script run
    session_state, shown,
    \* the globals of a run of the app: model is whether load_legalbert_model
    \* (line 1104) gave a classifier, gemini_result (line 1110) is the state
    \* of the generation service
    model, gemini_result

chunkVars == <<arg_text, text, chunk_size, overlap, start, chunks, ct_pc>>
ragVars == <<collection_docs, collection_chunks, next_uuid, next_oid, now, ingest_ret, search_ret>>

idVars == <<users_collection, last, race>>

uiVars == <<session_state, shown>>

svcVars == <<model, gemini_result>>

vars == <<chunkVars, ragVars, idVars, chat_collection, uiVars, svcVars>>

-----------------------------------------------------------------------------
(* Bounds of the model                                                      *)

MaxLen == 4
MaxSize == 3
\* ingests that get as far as drawing a doc_id
MaxDocs == 2
\* readings of datetime.now() by the identity and session operations
MaxClock == 4
\* create_chat_session and save_message_to_db calls that read the clock
MaxInserts == 4
\* of which, calls while two users share the collection
MaxSharedInserts == 2
\* user records (reached only when concurrent calls duplicate a user)
MaxUsers == 3
\* tokens of a generation output
MaxTokens == 4

-----------------------------------------------------------------------------
(* Helpers                                                                  *)

Min(a, b) == IF a <= b THEN a ELSE b
Max(a, b) == IF a >= b THEN a ELSE b

\* Python's s[lo:hi] for 0 <= lo <= hi <= len(s)
Slice(s, lo, hi) == SubSeq(s, lo + 1, hi)

\* One representative per character class that _clean_text tells apart:
\* a word character (\w), the hyphen, newline, carriage return, tab (standing
\* for [\t ]) and the space.
Chars == {"a", "-", "\n", "\r", "\t", " "}

IsWord(c) == c = "a"
IsSpace(c) == c \in {" ", "\n", "\r", "\t"}

Texts(n) == UNION {[1..k -> Chars] : k \in 0..n}

-----------------------------------------------------------------------------
(* _clean_text (app.py 466-475)                                             *)

\* last index of the run of word characters that starts at i
RECURSIVE RunEnd(_, _)
RunEnd(t, i) ==
    IF i < Len(t) /\ IsWord(t[i + 1]) THEN RunEnd(t, i + 1) ELSE i

\* re.sub(r"(\w+)-\n(\w+)", r"\1\2", txt): matches are found left to right and
\* do not overlap; lo is the first index the next match may use, so the word
\* that closed one match cannot open the next.
RECURSIVE DehyphenFrom(_, _, _)
DehyphenFrom(t, i, lo) ==
    IF i > Len(t) THEN <<>>
    ELSE IF /\ t[i] = "-"
            /\ i - 1 >= lo
            /\ IsWord(t[i - 1])
            /\ i + 2 <= Len(t)
            /\ t[i + 1] = "\n"
            /\ IsWord(t[i + 2])
         THEN LET e == RunEnd(t, i + 2)
              IN  SubSeq(t, i + 2, e) \o DehyphenFrom(t, e + 1, e + 1)
         ELSE <<t[i]>> \o DehyphenFrom(t, i + 1, lo)

Dehyphen(t) == DehyphenFrom(t, 1, 1)

\* txt.replace("\r", "\n")
CrToNl(t) == [i \in 1..Len(t) |-> IF t[i] = "\r" THEN "\n" ELSE t[i]]

\* re.sub(r"\n{2,}", "\n\n", txt): a run of newlines keeps at most two
RECURSIVE SquashNl(_, _)
SquashNl(t, run) ==
    IF t = <<>> THEN <<>>
    ELSE IF Head(t) = "\n"
         THEN (IF run >= 2 THEN <<>> ELSE <<"\n">>) \o SquashNl(Tail(t), run + 1)
         ELSE <<Head(t)>> \o SquashNl(Tail(t), 0)

\* re.sub(r"[\t ]", " ", txt)
TabToSpace(t) == [i \in 1..Len(t) |-> IF t[i] = "\t" THEN " " ELSE t[i]]

\* re.sub(r" +", " ", txt)
RECURSIVE SquashSp(_, _)
SquashSp(t, inrun) ==
    IF t = <<>> THEN <<>>
    ELSE IF Head(t) = " "
         THEN (IF inrun THEN <<>> ELSE <<" ">>) \o SquashSp(Tail(t), TRUE)
         ELSE <<Head(t)>> \o SquashSp(Tail(t), FALSE)

\* str.strip()
RECURSIVE LStrip(_)
LStrip(t) == IF t # <<>> /\ IsSpace(Head(t)) THEN LStrip(Tail(t)) ELSE t

RECURSIVE RStrip(_)
RStrip(t) ==
    IF t # <<>> /\ IsSpace(t[Len(t)]) THEN RStrip(SubSeq(t, 1, Len(t) - 1)) ELSE t

Strip(t) == RStrip(LStrip(t))

_clean_text(txt) ==
    IF txt = <<>> THEN <<>>
    ELSE Strip(SquashSp(TabToSpace(SquashNl(CrToNl(Dehyphen(txt)), 0)), FALSE))

-----------------------------------------------------------------------------
(* chunk_text (app.py 526-538)                                              *)

\* faulty variant: the window runs to the end of the text
WindowEnd_Uncapped(n, s, size) == n

\* end = min(len(text), start + chunk_size)
WindowEnd(n, s, size) == Min(n, s + size)

\* faulty variant: the next window starts where the last one ended
NextStart_NoOverlap(end, ov) == end

\* start = max(0, end - overlap)
NextStart(end, ov) == Max(0, end - ov)

\* faulty variant: the empty text is returned as one empty segment
ShortResult_KeepEmpty(t) == <<t>>

\* if len(text) <= chunk_size: return [text] if text else []
ShortResult(t) == IF t # <<>> THEN <<t>> ELSE <<>>

\* line 527-531: normalise, return at once for a short text, else enter the loop
ChunkEnter ==
    /\ ct_pc = "entry"
    /\ LET t == _clean_text(arg_text)
       IN  /\ text' = t
           /\ IF Len(t) <= chunk_size
              THEN /\ chunks' = ShortResult(t)
                   /\ ct_pc' = "return"
              ELSE /\ chunks' = <<>>
                   /\ ct_pc' = "while"
    /\ start' = 0
    /\ UNCHANGED <<arg_text, chunk_size, overlap>>
    /\ UNCHANGED <<ragVars, idVars, chat_collection, uiVars, svcVars>>

\* lines 532-537: one iteration of the while loop
ChunkLoop ==
    /\ ct_pc = "while"
    /\ IF start < Len(text)
       THEN LET end == WindowEnd(Len(text), start, chunk_size)
            IN  /\ chunks' = Append(chunks, Slice(text, start, end))
                /\ IF end = Len(text)
                   THEN /\ ct_pc' = "return"
                        /\ start' = start
                   ELSE /\ ct_pc' = "while"
                        /\ start' = NextStart(end, overlap)
       ELSE /\ ct_pc' = "return"
            /\ UNCHANGED <<start, chunks>>
    /\ UNCHANGED <<arg_text, text, chunk_size, overlap>>
    /\ UNCHANGED <<ragVars, idVars, chat_collection, uiVars, svcVars>>

\* None, as a session id and as a user id
NoId == 0
NoUser == ""

\* lines 985-992: the session state of a browser session that has not logged
\* in; user_info is <<>> for None and <<info>> for the dict, messages_loaded
\* is whether that key is set.  renaming and deleting hold the row indices
\* idx whose key renaming_{idx} / deleting_{idx} is true, as records
\* [idx, row], row being the session whose row held the button when it was
\* pressed (the code keeps the index only; row is read by no action).
\* uploaded_doc is <<>> when the uploaded_doc_* keys are absent and <<doc>>
\* when set (lines 1481-1484)
IdleUi ==
    /\ session_state = [authenticated |-> FALSE, user_info |-> <<>>,
                        current_session_id |-> NoId, messages |-> <<>>,
                        messages_loaded |-> FALSE,
                        renaming |-> {}, deleting |-> {}, uploaded_doc |-> <<>>]
    /\ shown = <<>>

\* lines 1104 and 1110: the classifier is loaded and the generation service
\* answers
IdleSvc ==
    /\ model = TRUE
    /\ gemini_result = "available"

\* no document store in use
IdleRag ==
    /\ collection_docs = {}
    /\ collection_chunks = {}
    /\ next_uuid = 1
    /\ next_oid = 1
    /\ now = 1
    /\ ingest_ret = [ok |-> FALSE, error |-> "none"]
    /\ search_ret = [called |-> FALSE]

Threads == {"t1", "t2"}

\* no user store in use
IdleId ==
    /\ users_collection = {}
    /\ last = [op |-> "none"]
    /\ race = [t \in Threads |-> [pc |-> "idle", args |-> <<>>, ret |-> "-"]]
    /\ chat_collection = {}

\* every call chunk_text(T, size, overlap) with chunk_size >= 1 and
\* 0 <= overlap < chunk_size, T any text of the alphabet
InitChunk ==
    /\ arg_text \in Texts(MaxLen)
    /\ chunk_size \in 1..MaxSize
    /\ overlap \in 0..(chunk_size - 1)
    /\ text = arg_text
    /\ start = 0
    /\ chunks = <<>>
    /\ ct_pc = "entry"
    /\ IdleRag
    /\ IdleId
    /\ IdleUi /\ IdleSvc

NextChunk == ChunkEnter \/ ChunkLoop

SpecChunk == InitChunk /\ [][NextChunk]_vars

-----------------------------------------------------------------------------
(* chunk_text as a function of its arguments: the same lines 526-538, run to *)
(* the return.  ChunkWindows gives the [start, end) offsets the loop slices. *)

DefaultChunkSize == 1200
DefaultOverlap == 200

RECURSIVE ChunkWindows(_, _, _, _)
ChunkWindows(n, size, ov, s) ==
    IF s < n
    THEN LET end == WindowEnd(n, s, size)
         IN  <<<<s, end>>>> \o
             (IF end = n THEN <<>> ELSE ChunkWindows(n, size, ov, NextStart(end, ov)))
    ELSE <<>>

\* the offsets of the segments of a normalised text of n characters
TextWindows(n, size, ov) ==
    IF n <= size
    THEN (IF n > 0 THEN <<<<0, n>>>> ELSE <<>>)
    ELSE ChunkWindows(n, size, ov, 0)

chunk_text(t, size, ov) ==
    LET c == _clean_text(t)
        w == TextWindows(Len(c), size, ov)
    IN  [i \in 1..Len(w) |-> Slice(c, w[i][1], w[i][2])]

-----------------------------------------------------------------------------
(* Claims about chunk_text, checked under SpecChunk                          *)

Returned == ct_pc = "return"

\* C5: for every text, chunk_size >= 1 and 0 <= overlap < chunk_size, every
\* segment chunk_text returns (and every segment collected so far) has length
\* at most chunk_size.
C5_SegmentsBounded ==
    \A i \in 1..Len(chunks) : Len(chunks[i]) <= chunk_size

\* a call that returned several windows, one of them full
C5_Witness ==
    /\ Returned
    /\ Len(chunks) >= 2
    /\ \E i \in 1..Len(chunks) : Len(chunks[i]) = chunk_size

\* the segments joined, every segment but the first without its first ov
\* characters
RECURSIVE JoinTails(_, _)
JoinTails(cs, ov) ==
    IF cs = <<>> THEN <<>>
    ELSE SubSeq(Head(cs), ov + 1, Len(Head(cs))) \o JoinTails(Tail(cs), ov)

Reassemble(cs, ov) ==
    IF cs = <<>> THEN <<>> ELSE Head(cs) \o JoinTails(Tail(cs), ov)

\* C6 as stated: joining the segments with the overlap removed gives back the
\* text the caller passed, character for character.
C6_RoundTripOfArgument ==
    Returned => Reassemble(chunks, overlap) = arg_text

\* C6 amended: joining the segments with the overlap removed gives back
\* _clean_text of the text the caller passed (chunk_size >= 1,
\* 0 <= overlap < chunk_size), which is the argument itself only when
\* normalisation leaves the argument unchanged.
C6_RoundTripOfCleanText ==
    Returned => Reassemble(chunks, overlap) = _clean_text(arg_text)

\* several overlapping windows of a text that normalisation changed
C6_Witness ==
    /\ Returned
    /\ Len(chunks) >= 2
    /\ overlap >= 1
    /\ text # arg_text

\* The reference chunker of the specification, in closed form: window i
\* (i = 0, 1, ...) is [i*(size-ov), min(len, i*(size-ov)+size)), up to and
\* including the first window that ends at len.
RefLast(n, size, ov) ==
    CHOOSE i \in 0..n :
        /\ i * (size - ov) + size >= n
        /\ \A j \in 0..(i - 1) : j * (size - ov) + size < n

RefWindows(n, size, ov) ==
    [i \in 1..(RefLast(n, size, ov) + 1) |->
        <<(i - 1) * (size - ov), Min(n, (i - 1) * (size - ov) + size)>>]

RefChunk(t, size, ov) ==
    IF t = <<>> THEN <<>>
    ELSE IF Len(t) <= size THEN <<t>>
    ELSE LET w == RefWindows(Len(t), size, ov)
         IN  [i \in 1..Len(w) |-> Slice(t, w[i][1], w[i][2])]

\* C7: chunk_text equals the reference chunker on its text (the variable
\* `text` of chunk_text, which line 527 binds to the normalised argument):
\* [] for the empty text, [text] for len(text) <= size, otherwise the windows
\* sliding by size - overlap whose last one ends at len(text); consecutive
\* segments share exactly `overlap` characters; and 1500 characters with size
\* 1200 and overlap 200 give the windows [0,1200) and [1000,1500).
C7_EqualsReference ==
    /\ Returned =>
        /\ chunks = RefChunk(text, chunk_size, overlap)
        /\ text = _clean_text(arg_text)
        /\ Len(chunks) >= 2 =>
            /\ \A i \in 1..(Len(chunks) - 1) :
                 SubSeq(chunks[i], Len(chunks[i]) - overlap + 1, Len(chunks[i]))
                   = SubSeq(chunks[i + 1], 1, overlap)
            /\ ChunkWindows(Len(text), chunk_size, overlap, 0)[Len(chunks)][2] = Len(text)
    /\ ChunkWindows(1500, DefaultChunkSize, DefaultOverlap, 0)
         = <<<<0, 1200>>, <<1000, 1500>>>>

\* three overlapping windows, the last one short
C7_Witness ==
    /\ Returned
    /\ Len(chunks) >= 2
    /\ overlap >= 1
    /\ Len(chunks[Len(chunks)]) < chunk_size

\* the loop and the function are the same computation
ChunkStepsAgree ==
    Returned => chunks = chunk_text(arg_text, chunk_size, overlap)

-----------------------------------------------------------------------------
(* Document ingestion and retrieval (app.py 540-640)                         *)
(*                                                                          *)
(* A page text is known by its length n after extraction; a chunk's content *)
(* is <<page, lo, hi>>, the slice [lo, hi) of that page's text.  An         *)
(* embedding is a unit vector, or the empty list that embed_texts_gemini    *)
(* appends when the embedding call raises (line 551).                       *)

UserIds == {"uA", "uB"}

VecDim == 2
Vecs == {<<1, 0>>, <<0, 1>>}
NoEmbedding == <<>>

\* the similarity of the query vector and a stored vector
Dot(q, e) == q[1] * e[1] + q[2] * e[2]

\* what text extraction hands to ingestion: the file type and the length of
\* each page's text (0: a page with no text)
Extractions ==
    {[file_type |-> "pdf", pages |-> p] :
        p \in {<<>>, <<0>>, <<100>>, <<0, 100>>}}
    \cup {[file_type |-> "png", pages |-> <<n>>] : n \in {0, 100}}

\* lines 557-566: an image with no text and a PDF with no pages are refused
NothingExtracted(ext) ==
    IF ext.file_type \in {"png", "jpg", "jpeg"}
    THEN ext.pages[1] = 0
    ELSE ext.pages = <<>>

\* lines 582-596: the chunk documents of the pages in order, before embedding
RECURSIVE PlannedChunks(_, _)
PlannedChunks(pages, i) ==
    IF i > Len(pages) THEN <<>>
    ELSE LET w == IF pages[i] # 0
                  THEN TextWindows(pages[i], DefaultChunkSize, DefaultOverlap)
                  ELSE <<>>
         IN  [j \in 1..Len(w) |->
                 [page |-> i, chunk_index |-> j - 1,
                  content |-> <<i, w[j][1], w[j][2]>>]]
             \o PlannedChunks(pages, i + 1)

\* per chunk: what embed_texts_gemini appended for it and whether its
\* insert_one succeeded
ChunkOutcomes == [embedding : Vecs \cup {NoEmbedding}, saved : BOOLEAN]

\* faulty variant: a failed insert of the document record does not end the ingest
ChunksAfterDocInsert_NoReturn(docOK, planned) == planned

\* lines 576-579: the chunks are reached only when the document insert succeeded
ChunksAfterDocInsert(docOK, planned) == IF docOK THEN planned ELSE <<>>

\* faulty variant: a chunk is counted whether or not its insert succeeded
TotalAfter_CountAll(total, saved) == total + 1

\* lines 597-601: total_chunks += 1 follows insert_one inside the try
TotalAfter(total, saved) == IF saved THEN total + 1 ELSE total

\* lines 587-601: insert the chunk documents one by one; st is
\* [chunks, oid, total]
RECURSIVE SaveChunks(_, _, _, _, _, _)
SaveChunks(planned, outs, i, doc_id, user_id, st) ==
    IF i > Len(planned) THEN st
    ELSE IF outs[i].saved
         THEN SaveChunks(planned, outs, i + 1, doc_id, user_id,
                [chunks |-> st.chunks \cup
                     {[_id |-> st.oid,
                       doc_id |-> doc_id,
                       user_id |-> user_id,
                       page |-> planned[i].page,
                       chunk_index |-> planned[i].chunk_index,
                       content |-> planned[i].content,
                       embedding |-> outs[i].embedding,
                       created_at |-> now]},
                 oid |-> st.oid + 1,
                 total |-> TotalAfter(st.total, TRUE)])
         ELSE SaveChunks(planned, outs, i + 1, doc_id, user_id,
                [st EXCEPT !.total = TotalAfter(@, FALSE)])

\* ingest_document_to_mongo (554-603)
Ingest(user_id, filename, ext, docOK) ==
    /\ next_uuid <= MaxDocs
    /\ IF NothingExtracted(ext)
       THEN /\ ingest_ret' = [ok |-> FALSE, error |-> "nothing extracted"]
            /\ UNCHANGED <<collection_docs, collection_chunks, next_uuid, next_oid, now>>
       ELSE LET doc_id == next_uuid
                doc_meta == [doc_id |-> doc_id,
                             user_id |-> user_id,
                             filename |-> filename,
                             page_count |-> Len(ext.pages),
                             created_at |-> now]
                planned == ChunksAfterDocInsert(docOK, PlannedChunks(ext.pages, 1))
            IN  /\ next_uuid' = next_uuid + 1
                /\ now' = now + 1
                /\ collection_docs' =
                       IF docOK THEN collection_docs \cup {doc_meta} ELSE collection_docs
                /\ \E outs \in [1..Len(planned) -> ChunkOutcomes] :
                     LET st == SaveChunks(planned, outs, 1, doc_id, user_id,
                                   [chunks |-> collection_chunks,
                                    oid |-> next_oid, total |-> 0])
                     IN  /\ collection_chunks' = st.chunks
                         /\ next_oid' = st.oid
                         /\ ingest_ret' =
                              IF docOK
                              THEN [ok |-> TRUE, doc_id |-> doc_id,
                                    pages |-> Len(ext.pages), chunks |-> st.total]
                              ELSE [ok |-> FALSE, error |-> "document meta"]
    /\ UNCHANGED search_ret

\* faulty variant: the search runs without the tenant filter
SearchFilter_None(c, user_id) == TRUE

\* "filter": {"user_id": user_id} (line 623)
SearchFilter(c, user_id) == c.user_id = user_id

\* the vector index holds the documents whose `embedding` is a vector of the
\* index's dimension; a chunk stored with the empty list is not in it
Indexed(c) == Len(c.embedding) = VecDim

NumCandidates == 200

\* faulty variant: the limit is not applied
Take_All(seq, n) == seq

\* the first n of a list of candidates (numCandidates, limit: lines 621-622)
Take(seq, n) == SubSeq(seq, 1, Min(n, Len(seq)))

\* the candidates by descending score (equal scores: older first)
RECURSIVE ByScore(_, _)
ByScore(S, qv) ==
    IF S = {} THEN <<>>
    ELSE LET best == CHOOSE c \in S : \A d \in S :
                        \/ Dot(qv, c.embedding) > Dot(qv, d.embedding)
                        \/ /\ Dot(qv, c.embedding) = Dot(qv, d.embedding)
                           /\ c._id <= d._id
         IN  <<best>> \o ByScore(S \ {best}, qv)

\* the $project stage (lines 626-633)
Project(c, qv) ==
    [_id |-> c._id, content |-> c.content, doc_id |-> c.doc_id, page |-> c.page,
     score |-> Dot(qv, c.embedding)]

\* the aggregation pipeline of lines 615-635 over a collection
VectorSearch(coll, qv, user_id, k) ==
    LET hits == Take(Take(ByScore({c \in coll : SearchFilter(c, user_id) /\ Indexed(c)}, qv),
                          NumCandidates), k)
    IN  [i \in 1..Len(hits) |-> Project(hits[i], qv)]

\* vector_search_chunks (605-640): embedOK is the query embedding call,
\* indexOK the aggregation
Search(user_id, k, qv, embedOK, indexOK) ==
    /\ search_ret' =
         [called |-> TRUE, user_id |-> user_id, k |-> k, qv |-> qv,
          ok |-> embedOK /\ indexOK,
          results |-> IF embedOK /\ indexOK
                      THEN VectorSearch(collection_chunks, qv, user_id, k)
                      ELSE <<>>]
    /\ UNCHANGED <<collection_docs, collection_chunks, next_uuid, next_oid, now, ingest_ret>>

Ks == {1, 2}
Filenames == {"f.pdf"}

IdleChunk ==
    /\ arg_text = <<>>
    /\ text = <<>>
    /\ chunk_size = 1
    /\ overlap = 0
    /\ start = 0
    /\ chunks = <<>>
    /\ ct_pc = "idle"

InitRag == IdleChunk /\ IdleRag /\ IdleId /\ IdleUi /\ IdleSvc

NextRag ==
    \/ \E u \in UserIds, f \in Filenames, ext \in Extractions, docOK \in BOOLEAN :
         Ingest(u, f, ext, docOK) /\ UNCHANGED <<chunkVars, svcVars, idVars, chat_collection, uiVars>>
    \/ \E u \in UserIds, k \in Ks, qv \in Vecs, embedOK \in BOOLEAN, indexOK \in BOOLEAN :
         Search(u, k, qv, embedOK, indexOK) /\ UNCHANGED <<chunkVars, svcVars, idVars, chat_collection, uiVars>>

SpecRag == InitRag /\ [][NextRag]_vars

-----------------------------------------------------------------------------
(* Claims about ingestion and retrieval, checked under SpecRag               *)

OwnerOf(id) == (CHOOSE c \in collection_chunks : c._id = id).user_id

ChunksOf(u) == {c \in collection_chunks : c.user_id = u}

\* C1: whatever was ingested, a search by user A returns only records of
\* chunks that A owns, also when another user owns a chunk that scores higher
\* for the query than every chunk of A.
C1_TenantIsolation ==
    search_ret.called =>
        \A i \in 1..Len(search_ret.results) :
            /\ \E c \in collection_chunks : c._id = search_ret.results[i]._id
            /\ OwnerOf(search_ret.results[i]._id) = search_ret.user_id

\* a search that returned a chunk of its user while another user's indexed
\* chunk scores strictly higher than everything returned
C1_Witness ==
    /\ search_ret.called
    /\ search_ret.results # <<>>
    /\ \E c \in collection_chunks :
         /\ c.user_id # search_ret.user_id
         /\ Indexed(c)
         /\ \A i \in 1..Len(search_ret.results) :
              Dot(search_ret.qv, c.embedding) > search_ret.results[i].score

\* C2: a search that ran returns what it would return were the caller's chunks
\* the only ones stored (so the result is the same for any two stores that
\* differ in other users' chunks only), and it returns min(k, number of the
\* caller's chunks) records.
C2_FilterInPredicate ==
    (search_ret.called /\ search_ret.ok) =>
        /\ search_ret.results =
             VectorSearch(ChunksOf(search_ret.user_id), search_ret.qv,
                          search_ret.user_id, search_ret.k)
        /\ Len(search_ret.results) =
             Min(search_ret.k, Cardinality(ChunksOf(search_ret.user_id)))

\* C3: every stored chunk names a stored document, and that document has the
\* chunk's user_id.
C3_ChunkHasParent ==
    \A c \in collection_chunks :
        \E d \in collection_docs : d.doc_id = c.doc_id /\ d.user_id = c.user_id

\* chunks are stored and the last ingest ended at a failed document insert
C3_Witness ==
    /\ collection_chunks # {}
    /\ collection_docs # {}
    /\ ~ingest_ret.ok
    /\ ingest_ret.error = "document meta"

-----------------------------------------------------------------------------
(* Identity store (app.py 856-909)                                           *)
(*                                                                          *)
(* bcrypt is taken as ideal: a hash is the salt with the digest of (salt,   *)
(* password), and checkpw recomputes the digest with the stored salt.       *)
(* last_login = 0 stands for None; an authenticate result is <<>> for None  *)
(* and <<info>> for the returned dict.                                      *)

Usernames == {"alice", "bob"}
Emails == {"a@x.com", "b@x.com"}
Passwords == {"pw123", "wrong"}
Salts == {"s1", "s2"}

\* hash_password (856-859), salt the value of bcrypt.gensalt()
hash_password(password, salt) == [salt |-> salt, digest |-> <<salt, password>>]

\* verify_password (861-863)
verify_password(password, hashed) == hashed.digest = <<hashed.salt, password>>

\* faulty variant: only the username is looked for
ExistingUser_UsernameOnly(coll, username, email) ==
    {u \in coll : u.username = username}

\* find_one({"$or": [{"username": username}, {"email": email}]}) (line 869)
ExistingUser(coll, username, email) ==
    {u \in coll : u.username = username \/ u.email = email}

\* user_doc (lines 872-883)
UserDoc(user_id, username, email, password, salt, t) ==
    [user_id |-> user_id,
     username |-> username,
     email |-> email,
     password_hash |-> hash_password(password, salt),
     created_at |-> t,
     last_login |-> 0,
     is_active |-> TRUE]

\* create_user (865-889); storeOK = FALSE: find_one or insert_one raises
CreateUser(username, email, password, salt, storeOK) ==
    /\ IF ~storeOK
       THEN /\ last' = [op |-> "create_user", username |-> username, email |-> email,
                        password |-> password, storeOK |-> FALSE, ret |-> FALSE]
            /\ UNCHANGED <<users_collection, next_uuid, now>>
       ELSE IF ExistingUser(users_collection, username, email) # {}
       THEN /\ last' = [op |-> "create_user", username |-> username, email |-> email,
                        password |-> password, storeOK |-> TRUE, ret |-> FALSE]
            /\ UNCHANGED <<users_collection, next_uuid, now>>
       ELSE /\ now <= MaxClock
            /\ users_collection' = users_collection \cup
                  {UserDoc(next_uuid, username, email, password, salt, now)}
            /\ next_uuid' = next_uuid + 1
            /\ now' = now + 1
            /\ last' = [op |-> "create_user", username |-> username, email |-> email,
                        password |-> password, storeOK |-> TRUE, ret |-> TRUE]
    /\ UNCHANGED <<race, collection_docs, collection_chunks, next_oid, ingest_ret, search_ret>>

\* faulty variant: a deactivated user is found too
FindActive_AnyStatus(coll, username) ==
    LET m == {u \in coll : u.username = username}
    IN  IF m = {} THEN <<>>
        ELSE <<CHOOSE u \in m : \A v \in m : u.user_id <= v.user_id>>

\* find_one({"username": username, "is_active": True}) (line 894): the oldest
\* match, or none
FindActive(coll, username) ==
    LET m == {u \in coll : u.username = username /\ u.is_active}
    IN  IF m = {} THEN <<>>
        ELSE <<CHOOSE u \in m : \A v \in m : u.user_id <= v.user_id>>

\* faulty variant: the password is not checked
PasswordAccepted_Always(password, user) == TRUE

\* verify_password(password, user["password_hash"]) (line 895)
PasswordAccepted(password, user) == verify_password(password, user.password_hash)

\* update_one({"user_id": ...}, {"$set": {"last_login": now}}) (897-900)
SetLastLogin(coll, user_id, t) ==
    {IF u.user_id = user_id THEN [u EXCEPT !.last_login = t] ELSE u : u \in coll}

UserInfo(user) ==
    [user_id |-> user.user_id, username |-> user.username, email |-> user.email]

\* authenticate_user (891-909); findOK / updateOK = FALSE: that call raises
AuthenticateUser(username, password, findOK, updateOK) ==
    /\ LET found == IF findOK THEN FindActive(users_collection, username) ELSE <<>>
           accepted == found # <<>> /\ PasswordAccepted(password, found[1])
       IN  IF accepted /\ updateOK
           THEN /\ now <= MaxClock
                /\ users_collection' = SetLastLogin(users_collection, found[1].user_id, now)
                /\ now' = now + 1
                /\ last' = [op |-> "authenticate_user", username |-> username,
                            password |-> password, storeOK |-> TRUE,
                            ret |-> <<UserInfo(found[1])>>]
           ELSE /\ last' = [op |-> "authenticate_user", username |-> username,
                            password |-> password,
                            storeOK |-> findOK /\ (accepted => updateOK),
                            ret |-> <<>>]
                /\ UNCHANGED <<users_collection, now>>
    /\ UNCHANGED <<race, next_uuid, collection_docs, collection_chunks, next_oid, ingest_ret, search_ret>>

InitId == IdleChunk /\ IdleRag /\ IdleId /\ IdleUi /\ IdleSvc

NextId ==
    \/ \E u \in Usernames, e \in Emails, p \in Passwords, s \in Salts, ok \in BOOLEAN :
         CreateUser(u, e, p, s, ok) /\ UNCHANGED <<chunkVars, svcVars, chat_collection, uiVars>>
    \/ \E u \in Usernames, p \in Passwords, findOK \in BOOLEAN, updateOK \in BOOLEAN :
         AuthenticateUser(u, p, findOK, updateOK) /\ UNCHANGED <<chunkVars, svcVars, chat_collection, uiVars>>

SpecId == InitId /\ [][NextId]_vars

-----------------------------------------------------------------------------
(* create_user called from several script threads at once: the existence   *)
(* check (line 869) and the insert (line 885) are separate store calls, and *)
(* the collection has no unique index.                                      *)

\* a thread enters create_user(username, email, password)
RaceCall(t, username, email) ==
    /\ race[t].pc = "idle"
    /\ race' = [race EXCEPT ![t] =
                  [pc |-> "check", args |-> <<username, email, "pw123", "s1">>, ret |-> "-"]]
    /\ UNCHANGED <<users_collection, next_uuid, now, last>>

\* line 869: the find_one, and the return False when it finds a user or raises
RaceCheck(t, storeOK) ==
    /\ race[t].pc = "check"
    /\ IF storeOK /\ ExistingUser(users_collection, race[t].args[1], race[t].args[2]) = {}
       THEN race' = [race EXCEPT ![t].pc = "insert"]
       ELSE race' = [race EXCEPT ![t].pc = "idle", ![t].ret = "False"]
    /\ UNCHANGED <<users_collection, next_uuid, now, last>>

\* lines 872-886: build the record and insert_one
RaceInsert(t, storeOK) ==
    /\ race[t].pc = "insert"
    /\ IF storeOK
       THEN /\ Cardinality(users_collection) < MaxUsers
            /\ users_collection' = users_collection \cup
                  {UserDoc(next_uuid, race[t].args[1], race[t].args[2],
                           race[t].args[3], race[t].args[4], now)}
            /\ next_uuid' = next_uuid + 1
            /\ now' = now + 1
            /\ race' = [race EXCEPT ![t].pc = "idle", ![t].ret = "True"]
       ELSE /\ race' = [race EXCEPT ![t].pc = "idle", ![t].ret = "False"]
            /\ UNCHANGED <<users_collection, next_uuid, now>>
    /\ UNCHANGED last

InitRace == IdleChunk /\ IdleRag /\ IdleId /\ IdleUi /\ IdleSvc

NextRace ==
    \/ \E t \in Threads, u \in Usernames, e \in Emails :
         RaceCall(t, u, e) /\ UNCHANGED <<chunkVars, svcVars, collection_docs, collection_chunks, next_oid, ingest_ret, search_ret, chat_collection, uiVars>>
    \/ \E t \in Threads, ok \in BOOLEAN :
         RaceCheck(t, ok) /\ UNCHANGED <<chunkVars, svcVars, collection_docs, collection_chunks, next_oid, ingest_ret, search_ret, chat_collection, uiVars>>
    \/ \E t \in Threads, ok \in BOOLEAN :
         RaceInsert(t, ok) /\ UNCHANGED <<chunkVars, svcVars, collection_docs, collection_chunks, next_oid, ingest_ret, search_ret, chat_collection, uiVars>>

SpecRace == InitRace /\ [][NextRace]_vars

-----------------------------------------------------------------------------
(* Claims about the identity store                                           *)

SameNameOrEmail(username, email) ==
    \E u \in users_collection : u.username = username \/ u.email = email

\* the step added exactly one record: active, never logged in, with the given
\* name, email and password and a user_id no record had
OneNewUser(username, email, password) ==
    \E n \in users_collection' :
        /\ n \notin users_collection
        /\ users_collection' = users_collection \cup {n}
        /\ n.username = username /\ n.email = email
        /\ verify_password(password, n.password_hash)
        /\ n.is_active
        /\ \A u \in users_collection : u.user_id # n.user_id

\* C8 as stated: create_user returns False and changes nothing whenever a
\* record with the username or the email exists; in every other case it
\* inserts exactly one new active user with a fresh user_id and returns True.
C8_CreateUserOutcome ==
    [][last'.op = "create_user" =>
         IF SameNameOrEmail(last'.username, last'.email)
         THEN last'.ret = FALSE /\ users_collection' = users_collection
         ELSE last'.ret = TRUE
              /\ OneNewUser(last'.username, last'.email, last'.password)]_vars

\* C8 amended: as stated when find_one and insert_one do not raise; when one
\* of them raises, create_user returns False.
C8_CreateUserOutcomeUnlessStoreFails ==
    [][last'.op = "create_user" =>
         IF ~last'.storeOK
         THEN last'.ret = FALSE
         ELSE IF SameNameOrEmail(last'.username, last'.email)
         THEN last'.ret = FALSE /\ users_collection' = users_collection
         ELSE last'.ret = TRUE
              /\ OneNewUser(last'.username, last'.email, last'.password)]_vars

\* a registration refused because its email is taken by a user with another
\* username, its own username being free
C8_Witness ==
    /\ last.op = "create_user"
    /\ last.storeOK
    /\ last.ret = FALSE
    /\ \E u \in users_collection : u.email = last.email /\ u.username # last.username
    /\ \A u \in users_collection : u.username # last.username

\* C9: no two user records share a username or an email.
C9_UniqueUsers ==
    \A u, v \in users_collection :
        u # v => (u.username # v.username /\ u.email # v.email)

\* the user records after a login of u at time t
LoggedIn(u, t) ==
    (users_collection \ {u}) \cup {[u EXCEPT !.last_login = t]}

\* C10 as stated: for a registered user, authenticate_user with the password
\* of the registration returns that user's info and sets that user's
\* last_login; with another password it returns nothing and changes no record.
C10_Authenticate ==
    [][last'.op = "authenticate_user" =>
         \A u \in users_collection :
             u.username = last'.username =>
                 IF u.password_hash = hash_password(last'.password, u.password_hash.salt)
                 THEN /\ last'.ret = <<UserInfo(u)>>
                      /\ users_collection' = LoggedIn(u, now)
                 ELSE /\ last'.ret = <<>>
                      /\ users_collection' = users_collection]_vars

\* C10 amended: as stated when find_one and update_one do not raise; when one
\* of them raises, authenticate_user returns nothing.
C10_AuthenticateUnlessStoreFails ==
    [][last'.op = "authenticate_user" =>
         \A u \in users_collection :
             u.username = last'.username =>
                 IF ~last'.storeOK
                 THEN last'.ret = <<>>
                 ELSE IF u.password_hash = hash_password(last'.password, u.password_hash.salt)
                 THEN /\ last'.ret = <<UserInfo(u)>>
                      /\ users_collection' = LoggedIn(u, now)
                 ELSE /\ last'.ret = <<>>
                      /\ users_collection' = users_collection]_vars

\* the second of two registered users has just logged in
C10_Witness ==
    /\ last.op = "authenticate_user"
    /\ last.ret # <<>>
    /\ Cardinality(users_collection) = 2
    /\ \E u \in users_collection :
         /\ <<UserInfo(u)>> = last.ret
         /\ u.last_login # 0
         /\ \E v \in users_collection : v.user_id < u.user_id

-----------------------------------------------------------------------------
(* Session store and message log (app.py 802-852, 911-980)                   *)
(*                                                                          *)
(* One collection holds the session_start records and the messages.  A      *)
(* field a record does not carry is written NoId (session_id), NoUser       *)
(* (user_id) or "absent" (prediction); a query for None matches it, as in   *)
(* the store.  In `last`, ok is a returned bool, sid a returned session id  *)
(* (NoId for None) and docs a returned list.                                *)

Roles == {"user", "assistant"}
SessionNames == {"My case", "Renamed"}
DefaultSessionName == "Session <date hour:minute>"
Contents == {"hello"}

\* hash_message (845-847): SHA-256 taken as injective
hash_message(content) == <<"sha256", content>>

\* verify_message_integrity (849-852)
verify_message_integrity(content, stored_hash) == hash_message(content) = stored_hash

\* the records of a find, sorted by timestamp (dir = 1 ascending, -1
\* descending), records of one timestamp in insertion order
RECURSIVE SortByTimestamp(_, _)
SortByTimestamp(S, dir) ==
    IF S = {} THEN <<>>
    ELSE LET first == CHOOSE r \in S : \A q \in S :
                         \/ dir * r.timestamp < dir * q.timestamp
                         \/ (r.timestamp = q.timestamp /\ r._id <= q._id)
         IN  <<first>> \o SortByTimestamp(S \ {first}, dir)

SessionFrame ==
    UNCHANGED <<chunkVars, svcVars, collection_docs, collection_chunks, ingest_ret, search_ret,
                users_collection, race, uiVars>>

Result(op, user_id, session_id, storeOK, ok, sid, docs) ==
    [op |-> op, user_id |-> user_id, session_id |-> session_id, storeOK |-> storeOK,
     ok |-> ok, sid |-> sid, docs |-> docs]

\* the store and the counters a call works on
Db == [coll |-> chat_collection, oid |-> next_oid, t |-> now, uuid |-> next_uuid]

\* faulty variant: the record is there although insert_one raised
InsertOne_Always(db, doc, storeOK) ==
    [db EXCEPT !.coll = @ \cup {doc}, !.oid = @ + 1, !.t = @ + 1]

\* collection.insert_one(doc) of a record stamped with datetime.now();
\* storeOK = FALSE: it raises and stores nothing
InsertOne(db, doc, storeOK) ==
    IF storeOK THEN [db EXCEPT !.coll = @ \cup {doc}, !.oid = @ + 1, !.t = @ + 1]
    ELSE db

\* message_doc (lines 808-820)
MessageDoc(db, role, content, prediction, user_id, session_id) ==
    [_id |-> db.oid,
     timestamp |-> db.t,
     role |-> role,
     content |-> content,
     content_hash |-> hash_message(content),
     prediction |-> prediction,
     user_id |-> user_id,
     session_id |-> session_id]

\* save_message_to_db (802-827) on db: the store after the call and the
\* returned bool
save_message_to_db(db, role, content, prediction, user_id, session_id, storeOK) ==
    [db |-> InsertOne(db, MessageDoc(db, role, content, prediction, user_id, session_id),
                      storeOK),
     ret |-> storeOK]

\* a call of save_message_to_db
SaveMessage(role, content, prediction, user_id, session_id, storeOK) ==
    /\ storeOK => now <= MaxInserts
    /\ LET r == save_message_to_db(Db, role, content, prediction, user_id, session_id,
                                   storeOK)
       IN  /\ chat_collection' = r.db.coll
           /\ next_oid' = r.db.oid
           /\ now' = r.db.t
           /\ last' = Result("save_message_to_db", user_id, session_id, storeOK, r.ret,
                             NoId, <<>>)
    /\ UNCHANGED next_uuid
    /\ SessionFrame

\* the find of lines 914-917
FoundSessions(coll, user_id) ==
    SortByTimestamp({r \in coll : r.user_id = user_id /\ r.role = "session_start"}, -1)

\* get_user_sessions (911-921)
GetUserSessions(user_id, storeOK) ==
    /\ last' = Result("get_user_sessions", user_id, NoId, storeOK, storeOK, NoId,
                 IF storeOK THEN FoundSessions(chat_collection, user_id) ELSE <<>>)
    /\ UNCHANGED <<chat_collection, next_oid, now, next_uuid>>
    /\ SessionFrame

\* session_doc (lines 930-937)
SessionDoc(db, user_id, name) ==
    [_id |-> db.oid,
     session_id |-> db.uuid,
     user_id |-> user_id,
     role |-> "session_start",
     content |-> name,
     timestamp |-> db.t,
     content_hash |-> hash_message(name),
     prediction |-> "absent"]

\* create_chat_session (923-943) on db: the store after the call and the
\* returned session id (NoId for None); session_name = "" stands for None.
\* uuid4 and datetime.now() are read before the insert
create_chat_session(db, user_id, session_name, storeOK) ==
    LET name == IF session_name = "" THEN DefaultSessionName ELSE session_name
        ins == InsertOne(db, SessionDoc(db, user_id, name), storeOK)
    IN  [db |-> [ins EXCEPT !.uuid = db.uuid + 1, !.t = db.t + 1],
         ret |-> IF storeOK THEN db.uuid ELSE NoId]

\* a call of create_chat_session
CreateChatSession(user_id, session_name, storeOK) ==
    /\ now <= MaxInserts
    /\ LET r == create_chat_session(Db, user_id, session_name, storeOK)
       IN  /\ chat_collection' = r.db.coll
           /\ next_oid' = r.db.oid
           /\ now' = r.db.t
           /\ next_uuid' = r.db.uuid
           /\ last' = Result("create_chat_session", user_id, NoId, storeOK, storeOK,
                             r.ret, <<>>)
    /\ SessionFrame

\* the find of lines 948-951
FoundMessages(coll, session_id, user_id) ==
    SortByTimestamp({r \in coll : r.session_id = session_id /\ r.user_id = user_id}, 1)

\* get_session_messages (945-955)
GetSessionMessages(session_id, user_id, storeOK) ==
    /\ last' = Result("get_session_messages", user_id, session_id, storeOK, storeOK, NoId,
                 IF storeOK THEN FoundMessages(chat_collection, session_id, user_id)
                 ELSE <<>>)
    /\ UNCHANGED <<chat_collection, next_oid, now, next_uuid>>
    /\ SessionFrame

\* faulty variant: the session is looked up by its id alone
RenameFilter_NoUser(r, session_id, user_id) ==
    r.session_id = session_id /\ r.role = "session_start"

\* {"session_id": ..., "user_id": ..., "role": "session_start"} (line 961)
RenameFilter(r, session_id, user_id) ==
    r.session_id = session_id /\ r.user_id = user_id /\ r.role = "session_start"

\* faulty variant: the name is set and the hash is left as it was
Renamed_StaleHash(old, new_name) == [old EXCEPT !.content = new_name]

\* {"$set": {"content": new_name, "content_hash": hash_message(new_name)}}
\* (line 962)
Renamed(old, new_name) ==
    [old EXCEPT !.content = new_name, !.content_hash = hash_message(new_name)]

\* faulty variant: the result is the matched count
ModifiedCount_Matched(old, new) == 1

\* result.modified_count of an update_one that matched old: 1 when a field
\* of the record changed, 0 when the record already had the values
ModifiedCount(old, new) == IF new # old THEN 1 ELSE 0

\* rename_session (957-967) on the collection: the collection after the call
\* and the returned bool.  update_one changes the oldest match;
\* storeOK = FALSE: it raises
rename_session(coll, session_id, user_id, new_name, storeOK) ==
    LET m == {r \in coll : RenameFilter(r, session_id, user_id)}
    IN  IF storeOK /\ m # {}
        THEN LET old == CHOOSE r \in m : \A q \in m : r._id <= q._id
                 new == Renamed(old, new_name)
             IN  [coll |-> (coll \ {old}) \cup {new},
                  ret |-> ModifiedCount(old, new) > 0]
        ELSE [coll |-> coll, ret |-> FALSE]

\* a call of rename_session
RenameSession(session_id, user_id, new_name, storeOK) ==
    /\ LET r == rename_session(chat_collection, session_id, user_id, new_name, storeOK)
       IN  /\ chat_collection' = r.coll
           /\ last' = Result("rename_session", user_id, session_id, storeOK,
                             r.ret, NoId, <<>>)
    /\ UNCHANGED <<next_oid, now, next_uuid>>
    /\ SessionFrame

\* faulty variant: the session record is deleted and its messages are kept
DeleteFilter_NoCascade(r, session_id, user_id) ==
    r.session_id = session_id /\ r.user_id = user_id /\ r.role = "session_start"

\* faulty variant: the records of the session are deleted whoever owns them
DeleteFilter_NoUser(r, session_id, user_id) == r.session_id = session_id

\* {"session_id": session_id, "user_id": user_id} (line 974)
DeleteFilter(r, session_id, user_id) ==
    r.session_id = session_id /\ r.user_id = user_id

\* delete_session (969-980) on the collection: the collection after the call
\* and the returned bool (deleted_count >= 0)
delete_session(coll, session_id, user_id, storeOK) ==
    IF storeOK
    THEN [coll |-> {r \in coll : ~DeleteFilter(r, session_id, user_id)}, ret |-> TRUE]
    ELSE [coll |-> coll, ret |-> FALSE]

\* a call of delete_session
DeleteSession(session_id, user_id, storeOK) ==
    /\ LET r == delete_session(chat_collection, session_id, user_id, storeOK)
       IN  /\ chat_collection' = r.coll
           /\ last' = Result("delete_session", user_id, session_id, storeOK, r.ret,
                             NoId, <<>>)
    /\ UNCHANGED <<next_oid, now, next_uuid>>
    /\ SessionFrame

\* the session ids a caller can hold: every id drawn so far
KnownSessionIds == 1..(next_uuid - 1)

Predictions(role) == IF role = "assistant" THEN {"Appeal Allowed"} ELSE {"None"}

InitSession == IdleChunk /\ IdleRag /\ IdleId /\ IdleUi /\ IdleSvc

NextSession ==
    \/ \E u \in UserIds, n \in {"", "My case"}, ok \in BOOLEAN :
         now <= MaxSharedInserts /\ CreateChatSession(u, n, ok)
    \/ \E u \in UserIds, sid \in KnownSessionIds, role \in Roles, c \in Contents, ok \in BOOLEAN :
         \E p \in Predictions(role) :
            now <= MaxSharedInserts /\ SaveMessage(role, c, p, u, sid, ok)
    \/ \E u \in UserIds, ok \in BOOLEAN :
         GetUserSessions(u, ok)
    \/ \E u \in UserIds, sid \in KnownSessionIds, ok \in BOOLEAN :
         GetSessionMessages(sid, u, ok)
    \/ \E u \in UserIds, sid \in KnownSessionIds, n \in SessionNames, ok \in BOOLEAN :
         RenameSession(sid, u, n, ok)
    \/ \E u \in UserIds, sid \in KnownSessionIds, ok \in BOOLEAN :
         DeleteSession(sid, u, ok)

SpecSession == InitSession /\ [][NextSession]_vars

\* one user and that user's sessions, with room for a session of several
\* messages
Owner == "uA"

InitHistory == IdleChunk /\ IdleRag /\ IdleId /\ IdleUi /\ IdleSvc

NextHistory ==
    \/ \E ok \in BOOLEAN :
         CreateChatSession(Owner, "", ok)
    \/ \E sid \in KnownSessionIds, role \in Roles, c \in Contents, ok \in BOOLEAN :
         \E p \in Predictions(role) : SaveMessage(role, c, p, Owner, sid, ok)
    \/ \E ok \in BOOLEAN :
         GetUserSessions(Owner, ok)
    \/ \E sid \in KnownSessionIds, ok \in BOOLEAN :
         GetSessionMessages(sid, Owner, ok)
    \/ \E sid \in KnownSessionIds, ok \in BOOLEAN :
         DeleteSession(sid, Owner, ok)

SpecHistory == InitHistory /\ [][NextHistory]_vars

-----------------------------------------------------------------------------
(* Claims about the session layer, checked under SpecSession                 *)

SessionOps ==
    {"create_chat_session", "save_message_to_db", "get_user_sessions",
     "get_session_messages", "rename_session", "delete_session"}

\* C4: a session-layer operation issued with user_id u leaves every record of
\* another user in place and unmodified, and returns no record of another
\* user, whatever session_id it is given.
C4_OnlyOwnRecords ==
    [][last'.op \in SessionOps =>
         /\ \A r \in chat_collection : r.user_id # last'.user_id => r \in chat_collection'
         /\ \A r \in chat_collection' : r.user_id # last'.user_id => r \in chat_collection
         /\ \A i \in 1..Len(last'.docs) : last'.docs[i].user_id = last'.user_id]_vars

\* a user has just deleted, renamed or read with the id of a session that
\* another user owns and that still holds that user's records
C4_Witness ==
    /\ last.op \in {"delete_session", "rename_session", "get_session_messages"}
    /\ last.storeOK
    /\ \E r \in chat_collection :
         /\ r.session_id = last.session_id
         /\ r.user_id # last.user_id
         /\ r.role = "session_start"
    /\ \E r \in chat_collection : r.user_id # last.user_id /\ r.role # "session_start"

-----------------------------------------------------------------------------
(* Login form and logout (app.py 1002-1034, 1136-1143)                       *)

InvalidLogin == "Invalid username or password"

\* the users collection as the form finds it: records written by create_user
\* before this browser session, of which the operator of the store may have
\* set is_active to false (the code reads that field and never writes false)
StoredUsers ==
    {{[UserDoc(i, IF i = 1 THEN "alice" ELSE "bob",
                  IF i = 1 THEN "a@x.com" ELSE "b@x.com", "pw123", "s1", 0)
         EXCEPT !.is_active = act[i]] : i \in DOMAIN act} :
       act \in UNION {[D -> BOOLEAN] : D \in SUBSET {1, 2}}}

\* what the form did when it did not reach authenticate_user
FormOnly(username, password) ==
    [op |-> "login_form", username |-> username, password |-> password,
     storeOK |-> TRUE, ret |-> <<>>]

\* the login_form handler (lines 1015-1034), shown while not authenticated
\* (line 1002); clientOK = FALSE: init_connection returned None
LoginForm(username, password, clientOK, findOK, updateOK) ==
    /\ ~session_state.authenticated
    /\ IF username = "" \/ password = ""
       THEN /\ shown' = <<"Please enter both username and password">>
            /\ last' = FormOnly(username, password)
            /\ UNCHANGED <<session_state, users_collection, now, race, next_uuid,
                           collection_docs, collection_chunks, next_oid,
                           ingest_ret, search_ret>>
       ELSE IF ~clientOK
       THEN /\ shown' = <<"Database connection failed">>
            /\ last' = FormOnly(username, password)
            /\ UNCHANGED <<session_state, users_collection, now, race, next_uuid,
                           collection_docs, collection_chunks, next_oid,
                           ingest_ret, search_ret>>
       ELSE /\ AuthenticateUser(username, password, findOK, updateOK)
            /\ IF last'.ret # <<>>
               THEN /\ session_state' = [session_state EXCEPT
                                           !.authenticated = TRUE,
                                           !.user_info = last'.ret]
                    /\ shown' = <<"Welcome back", last'.ret[1].username>>
               ELSE /\ shown' = <<InvalidLogin>>
                    /\ UNCHANGED session_state
    /\ UNCHANGED <<chunkVars, svcVars, chat_collection>>

\* the logout button (lines 1136-1146): the keys it resets or deletes; every
\* other key of the session state stays
Logout ==
    /\ session_state.authenticated
    /\ session_state' = [session_state EXCEPT
                            !.authenticated = FALSE, !.user_info = <<>>,
                            !.current_session_id = NoId, !.messages = <<>>,
                            !.messages_loaded = FALSE]
    /\ shown' = <<>>
    /\ last' = [op |-> "logout"]
    /\ UNCHANGED <<chunkVars, svcVars, ragVars, users_collection, race, chat_collection>>

InitLogin ==
    /\ IdleChunk /\ IdleRag /\ IdleUi /\ IdleSvc
    /\ users_collection \in StoredUsers
    /\ last = [op |-> "none"]
    /\ race = [t \in Threads |-> [pc |-> "idle", args |-> <<>>, ret |-> "-"]]
    /\ chat_collection = {}

NextLogin ==
    \/ \E u \in Usernames \cup {""}, p \in Passwords \cup {""},
          clientOK \in BOOLEAN, findOK \in BOOLEAN, updateOK \in BOOLEAN :
         LoginForm(u, p, clientOK, findOK, updateOK)
    \/ Logout

SpecLogin == InitLogin /\ [][NextLogin]_vars

-----------------------------------------------------------------------------
(* Claims about the login form, checked under SpecLogin                      *)

\* the three ways a login with a username and a password fails
UnknownUsername(username) ==
    \A u \in users_collection : u.username # username

DeactivatedUser(username) ==
    /\ \E u \in users_collection : u.username = username
    /\ \A u \in users_collection : u.username = username => ~u.is_active

WrongPassword(username, password) ==
    \E u \in users_collection :
        /\ u.username = username
        /\ u.is_active
        /\ ~verify_password(password, u.password_hash)

\* C11: a login that fails for an unknown username, for a deactivated user or
\* for a wrong password has one and the same outcome in the three cases:
\* authenticate_user returns nothing, the users collection and the session
\* state are left as they were, and the form shows "Invalid username or
\* password".
C11_FailedLoginUniform ==
    [][(/\ last'.op = "authenticate_user"
        /\ \/ UnknownUsername(last'.username)
           \/ DeactivatedUser(last'.username)
           \/ WrongPassword(last'.username, last'.password))
       => /\ last'.ret = <<>>
          /\ users_collection' = users_collection
          /\ session_state' = session_state
          /\ shown' = <<InvalidLogin>>]_vars

\* a deactivated user has just been refused with the right password, the
\* store answering
C11_Witness ==
    /\ last.op = "authenticate_user"
    /\ last.storeOK
    /\ last.ret = <<>>
    /\ shown = <<InvalidLogin>>
    /\ \E u \in users_collection :
         /\ u.username = last.username
         /\ ~u.is_active
         /\ verify_password(last.password, u.password_hash)
    /\ \E u \in users_collection : u.is_active

-----------------------------------------------------------------------------
(* Claims about rename, delete and history, checked under SpecSession        *)

\* the session records of the pair (session_id, user_id)
SessionRecords(coll, session_id, user_id) ==
    {r \in coll : /\ r.session_id = session_id
                  /\ r.user_id = user_id
                  /\ r.role = "session_start"}

\* a and b are one record up to the display name and its hash
SameButName(a, b) ==
    [a EXCEPT !.content = "", !.content_hash = ""] =
    [b EXCEPT !.content = "", !.content_hash = ""]

\* C12: rename_session returns False and changes no record when no session
\* record has the given (session_id, user_id); when one has, every record
\* other than that session record is left as it is, messages included, and
\* the session record changes in its name and content_hash only.
C12_RenameFrame ==
    [][last'.op = "rename_session" =>
         LET m == SessionRecords(chat_collection, last'.session_id, last'.user_id)
         IN  IF m = {}
             THEN /\ ~last'.ok
                  /\ chat_collection' = chat_collection
             ELSE /\ \A r \in chat_collection \ m : r \in chat_collection'
                  /\ \A r \in chat_collection' \ chat_collection :
                         \E o \in m : SameButName(o, r) /\ o \notin chat_collection'
                  /\ Cardinality(chat_collection') = Cardinality(chat_collection)]_vars

\* a session that holds a message has just been renamed by its owner
C12_Witness ==
    /\ last.op = "rename_session"
    /\ last.ok
    /\ \E r \in chat_collection :
         /\ r.session_id = last.session_id
         /\ r.user_id = last.user_id
         /\ r.role = "session_start"
         /\ r.content = "Renamed"
    /\ \E r \in chat_collection :
         /\ r.session_id = last.session_id
         /\ r.role \in Roles

\* the session ids that get_user_sessions would list
ListedSessionIds(coll, user_id) ==
    {FoundSessions(coll, user_id)[i].session_id :
        i \in 1..Len(FoundSessions(coll, user_id))}

\* C13 as stated: delete_session(S, U) returns True, after it the history of
\* (S, U) is empty and S is not among U's sessions, and a delete that finds
\* nothing to delete returns True too and changes nothing.
C13_DeleteCascades ==
    [][last'.op = "delete_session" =>
         /\ last'.ok
         /\ FoundMessages(chat_collection', last'.session_id, last'.user_id) = <<>>
         /\ last'.session_id \notin ListedSessionIds(chat_collection', last'.user_id)
         /\ FoundMessages(chat_collection, last'.session_id, last'.user_id) = <<>>
               => chat_collection' = chat_collection]_vars

\* C13 amended: as stated when delete_many does not raise; when it raises,
\* delete_session returns False and changes nothing.
C13_DeleteCascadesUnlessStoreFails ==
    [][last'.op = "delete_session" =>
         IF last'.storeOK
         THEN /\ last'.ok
              /\ FoundMessages(chat_collection', last'.session_id, last'.user_id) = <<>>
              /\ last'.session_id \notin ListedSessionIds(chat_collection', last'.user_id)
              /\ FoundMessages(chat_collection, last'.session_id, last'.user_id) = <<>>
                    => chat_collection' = chat_collection
         ELSE /\ ~last'.ok
              /\ chat_collection' = chat_collection]_vars

\* one session was created, three messages were appended to it, and a delete
\* has just left the collection empty
C13_Witness ==
    /\ last.op = "delete_session"
    /\ last.ok
    /\ next_uuid = 2
    /\ next_oid = 5
    /\ chat_collection = {}

\* the records of S in the order they were inserted
RECURSIVE InAppendOrder(_)
InAppendOrder(S) ==
    IF S = {} THEN <<>>
    ELSE LET first == CHOOSE r \in S : \A q \in S : r._id <= q._id
         IN  <<first>> \o InAppendOrder(S \ {first})

\* C14: a get_session_messages(session_id, user_id) that the store answers
\* returns exactly the stored records of role user or assistant of that
\* (session_id, user_id), in the order they were appended.
C14_HistoryIsMessages ==
    [][(last'.op = "get_session_messages" /\ last'.storeOK) =>
         last'.docs = InAppendOrder({r \in chat_collection :
                                       /\ r.session_id = last'.session_id
                                       /\ r.user_id = last'.user_id
                                       /\ r.role \in Roles})]_vars

\* C15: in every reachable state of the chat collection, the content_hash of
\* every record is hash_message of its content, so verify_message_integrity
\* holds of every stored record after any saves, reads, session creations,
\* renames and deletes.
C15_HashMatchesContent ==
    \A r \in chat_collection : verify_message_integrity(r.content, r.content_hash)

\* a session that was renamed holds a message
C15_Witness ==
    \E r, q \in chat_collection :
        /\ r.role = "session_start"
        /\ r.content = "Renamed"
        /\ q.role \in Roles
        /\ q.session_id = r.session_id
        /\ q.user_id = r.user_id
        /\ last.op = "rename_session"

-----------------------------------------------------------------------------
(* The chat page of a logged-in user (app.py 1337-1364, 1502-1628).  Every   *)
(* script run goes through the history part before it handles an input.      *)

\* readings of a chat page's script runs
MaxTurns == 2

Modes == {"case_prediction", "legal_aid"}
\* the generation service of a run: gemini_result[0] is false
\* ("unavailable"), or it is true and the generate_content calls succeed
\* ("available") or raise ("failing")
GeminiStates == {"available", "unavailable", "failing"}

\* faulty variant: no prediction without the classifier
PredictorFor_NoFallback(classifier, gemini) ==
    IF classifier THEN "legalbert" ELSE "none"

\* lines 1588-1602: who predicts the outcome in case prediction mode:
\* predict_outcome when the LegalBERT model is loaded, else
\* predict_outcome_with_gemini when gemini_result[0], else nobody
PredictorFor(classifier, gemini) ==
    IF classifier THEN "legalbert"
    ELSE IF gemini # "unavailable" THEN "gemini" ELSE "none"

\* generate_legal_explanation (691-751) and provide_legal_aid_info (753-800):
\* the generated text, or the error text of their except branch
Generated(what, gemini) ==
    IF gemini = "available"
    THEN IF what = "explanation" THEN "explanation" ELSE "legal aid information"
    ELSE IF what = "explanation" THEN "Error generating detailed explanation"
         ELSE "Error generating legal aid information"

\* lines 1587-1609: the response and the prediction of a turn
Respond(mode, classifier, gemini) ==
    LET predictor == IF mode = "case_prediction"
                     THEN PredictorFor(classifier, gemini) ELSE "none"
        \* predict_outcome_with_gemini returns its default when the call raises
        prediction == IF predictor = "legalbert" THEN "Appeal Allowed"
                      ELSE IF predictor = "gemini"
                      THEN IF gemini = "available" THEN "Appeal Allowed"
                           ELSE "Appeal Dismissed"
                      ELSE "None"
    IN  [predictor |-> predictor,
         prediction |-> prediction,
         response |->
            IF mode = "case_prediction"
            THEN IF predictor = "legalbert"
                 THEN IF gemini # "unavailable"
                      THEN Generated("explanation", gemini)
                      ELSE "Predicted Outcome; Gemini AI not available"
                 ELSE IF predictor = "gemini"
                 THEN IF gemini = "available"
                      THEN "Note: Using Gemini AI for prediction; explanation"
                      ELSE "Note: Using Gemini AI for prediction; Error generating detailed explanation"
                 ELSE "LegalBERT model not loaded and Gemini AI is not available"
            ELSE IF gemini # "unavailable"
                 THEN Generated("legal aid information", gemini)
                 ELSE "Gemini AI not available"]

\* the responses a turn can have
Responses ==
    {Respond(mode, c, g).response : mode \in Modes, c \in BOOLEAN, g \in GeminiStates}
Welcome == "Hello! I'm your AI legal assistant"

Msg(role, content) == [role |-> role, content |-> content]

\* lines 1525-1530: f"{user_input}{doc_info}", on the texts of the model
DisplayMessage(user_input, doc_filename) ==
    IF user_input = "hello" /\ doc_filename = "f.pdf"
    THEN "hello; Source Document: f.pdf"
    ELSE "<input>; Source Document: <filename>"

\* lines 1533-1537: the user message that carries an attached document
DocMsg(content, doc) ==
    [role |-> "user", content |-> content,
     doc_filename |-> doc.filename, doc_bytes |-> doc.bytes]

\* lines 1201-1206 and 1348-1353: the loaded records of role user or assistant
RECURSIVE LoadedMessages(_)
LoadedMessages(docs) ==
    IF docs = <<>> THEN <<>>
    ELSE (IF Head(docs).role \in Roles
          THEN <<Msg(Head(docs).role, Head(docs).content)>> ELSE <<>>)
         \o LoadedMessages(Tail(docs))

\* lines 1356-1363: the welcome message when the conversation is empty, or
\* holds no welcome and does not end with an assistant message
WithWelcome(messages) ==
    LET welcome_exists == \E i \in 1..Len(messages) :
                              messages[i] = Msg("assistant", Welcome)
    IN  IF messages = <<>>
           \/ (~welcome_exists /\ messages[Len(messages)].role # "assistant")
        THEN Append(messages, Msg("assistant", Welcome))
        ELSE messages

\* lines 1337-1364 on st = [ss, db]: create the session when there is none,
\* load its messages once, add the welcome.  haveStore = FALSE: collection is
\* None; createOK / findOK = FALSE: that store call raises
HistoryPart(st, haveStore, createOK, findOK) ==
    IF ~(st.ss.authenticated /\ st.ss.user_info # <<>> /\ haveStore)
    THEN st
    ELSE LET uid == st.ss.user_info[1].user_id
             c == IF st.ss.current_session_id = NoId
                  THEN create_chat_session(st.db, uid, "", createOK)
                  ELSE [db |-> st.db, ret |-> st.ss.current_session_id]
             load == c.ret # NoId /\ ~st.ss.messages_loaded
             session_messages == IF findOK THEN FoundMessages(c.db.coll, c.ret, uid)
                                 ELSE <<>>
             messages == IF load /\ session_messages # <<>>
                         THEN LoadedMessages(session_messages)
                         ELSE st.ss.messages
         IN  [ss |-> [st.ss EXCEPT !.current_session_id = c.ret,
                                   !.messages = WithWelcome(messages),
                                   !.messages_loaded = @ \/ load],
              db |-> c.db]

\* lines 1567-1575 and 1620-1628: the save of a message of the turn, made
\* when there is a collection, a user and a session; shows a warning when it
\* returns False
TurnSave(st, role, content, prediction, haveStore, storeOK, warning) ==
    IF haveStore /\ st.ss.user_info # <<>> /\ st.ss.current_session_id # NoId
    THEN LET r == save_message_to_db(st.db, role, content, prediction,
                                     st.ss.user_info[1].user_id,
                                     st.ss.current_session_id, storeOK)
         IN  [db |-> r.db, tried |-> TRUE, ret |-> r.ret,
              shown |-> IF r.ret THEN <<>> ELSE <<warning>>]
    ELSE [db |-> st.db, tried |-> FALSE, ret |-> TRUE, shown |-> <<>>]

ChatFrame ==
    UNCHANGED <<chunkVars, svcVars, collection_docs, collection_chunks, ingest_ret, search_ret,
                users_collection, race>>

\* a script run of the chat page with no input (after login's st.rerun)
OpenChat(haveStore, createOK, findOK) ==
    /\ session_state.authenticated
    /\ now <= MaxClock
    /\ LET h == HistoryPart([ss |-> session_state, db |-> Db], haveStore, createOK, findOK)
       IN  /\ session_state' = h.ss
           /\ chat_collection' = h.db.coll
           /\ next_oid' = h.db.oid
           /\ now' = h.db.t
           /\ next_uuid' = h.db.uuid
           /\ shown' = <<>>
           /\ last' = [op |-> "open_chat"]
    /\ ChatFrame

\* a script run with a chat input (lines 1507-1628): the history part, then
\* the user message is appended and saved, the response is generated,
\* appended and saved
ChatTurn(user_input, mode, haveStore, createOK, findOK, ok1, ok2) ==
    /\ session_state.authenticated
    /\ now <= MaxClock
    /\ Len(session_state.messages) < 2 * MaxTurns
    /\ LET h == HistoryPart([ss |-> session_state, db |-> Db], haveStore, createOK, findOK)
           gen == Respond(mode, model, gemini_result)
           response == gen.response
           prediction == gen.prediction
           \* lines 1517-1537 and 1552-1565: the attached document goes into
           \* the user message and leaves the session state
           attach == mode = "case_prediction" /\ h.ss.uploaded_doc # <<>>
           display_message ==
               IF attach THEN DisplayMessage(user_input, h.ss.uploaded_doc[1].filename)
               ELSE user_input
           message_data ==
               IF attach THEN DocMsg(display_message, h.ss.uploaded_doc[1])
               ELSE Msg("user", display_message)
           s1 == TurnSave(h, "user", display_message, "None", haveStore, ok1,
                          "Failed to save message to database")
           h1 == [ss |-> [h.ss EXCEPT !.messages = Append(@, message_data),
                                      !.uploaded_doc = IF attach THEN <<>> ELSE @],
                  db |-> s1.db]
           s2 == TurnSave(h1, "assistant", response, prediction, haveStore, ok2,
                          "Failed to save assistant response to database")
       IN  /\ session_state' =
                 [h1.ss EXCEPT !.messages = Append(@, Msg("assistant", response))]
           /\ chat_collection' = s2.db.coll
           /\ next_oid' = s2.db.oid
           /\ now' = s2.db.t
           /\ next_uuid' = s2.db.uuid
           /\ shown' = s1.shown \o s2.shown
           /\ last' = [op |-> "chat_input", user_input |-> user_input,
                       display_message |-> display_message,
                       mode |-> mode,
                       predictor |-> gen.predictor,
                       prediction |-> prediction,
                       response |-> response,
                       at |-> Len(h.ss.messages),
                       session_id |-> h.ss.current_session_id,
                       saves |-> s1.tried, ok1 |-> s1.ret, ok2 |-> s2.ret]
    /\ ChatFrame

\* the users collection holds two active users
InitChat ==
    /\ IdleChunk /\ IdleRag /\ IdleUi
    /\ model \in BOOLEAN
    /\ gemini_result \in GeminiStates
    /\ users_collection \in {S \in StoredUsers :
                               Cardinality(S) = 2 /\ \A u \in S : u.is_active}
    /\ last = [op |-> "none"]
    /\ race = [t \in Threads |-> [pc |-> "idle", args |-> <<>>, ret |-> "-"]]
    /\ chat_collection = {}

NextChat ==
    \/ \E p \in Passwords, findOK \in BOOLEAN :
         LoginForm("alice", p, TRUE, findOK, TRUE)
    \/ Logout
    \/ \E haveStore \in BOOLEAN, createOK \in BOOLEAN, findOK \in BOOLEAN :
         OpenChat(haveStore, createOK, findOK)
    \/ \E c \in Contents, mode \in Modes, haveStore \in BOOLEAN,
          createOK \in BOOLEAN, findOK \in BOOLEAN, ok1 \in BOOLEAN, ok2 \in BOOLEAN :
         ChatTurn(c, mode, haveStore, createOK, findOK, ok1, ok2)

SpecChat == InitChat /\ [][NextChat]_vars

-----------------------------------------------------------------------------
(* Claims about the chat turn, checked under SpecChat                        *)

\* the records of a role that a step added to the chat collection
AddedOfRole(role) ==
    {r \in chat_collection' \ chat_collection : r.role = role}

\* C16: a chat turn whose save of the user message or of the response fails
\* gets False from save_message_to_db, persists no record for that message
\* and shows a warning, and the turn goes on all the same: the conversation
\* in memory ends with the user message and the generated response.
C16_FailedSaveIsNotFatal ==
    [][last'.op = "chat_input" =>
         LET ms == session_state'.messages
             n == Len(ms)
         IN  /\ n >= 2
             /\ ms[n - 1] = Msg("user", last'.user_input)
             /\ ms[n] = Msg("assistant", last'.response)
             /\ (last'.saves /\ ~last'.ok1) =>
                    /\ AddedOfRole("user") = {}
                    /\ \E i \in 1..Len(shown') :
                          shown'[i] = "Failed to save message to database"
             /\ (last'.saves /\ ~last'.ok2) =>
                    /\ AddedOfRole("assistant") = {}
                    /\ \E i \in 1..Len(shown') :
                          shown'[i] = "Failed to save assistant response to database"
             /\ (last'.saves /\ last'.ok1) => Cardinality(AddedOfRole("user")) = 1
             /\ (last'.saves /\ last'.ok2) => Cardinality(AddedOfRole("assistant")) = 1]_vars

\* a turn in a stored session has just lost both of its saves, and its two
\* messages are the last of the conversation
C16_Witness ==
    /\ last.op = "chat_input"
    /\ last.saves
    /\ ~last.ok1
    /\ ~last.ok2
    /\ Len(shown) = 2
    /\ \E r \in chat_collection :
         r.role = "session_start" /\ r.session_id = session_state.current_session_id
    /\ \A r \in chat_collection : r.role = "session_start"
    /\ Len(session_state.messages) >= 3
    /\ session_state.messages[Len(session_state.messages)].content = last.response

\* C24: for every input submitted while authenticated, whatever the classifier
\* (loaded or not), the generation service (available, unavailable, failing)
\* and the store (available or not, each call succeeding or raising), the
\* handler appends exactly two messages to the conversation: the user message
\* and directly after it one assistant message; without the classifier the
\* prediction comes from the generation service when there is one; and when
\* both messages are persisted the user record is the earlier one.
C24_OneResponsePerInput ==
    [][last'.op = "chat_input" =>
         LET ms == session_state'.messages
             at == last'.at
         IN  /\ Len(ms) = at + 2
             /\ ms[at + 1] = Msg("user", last'.user_input)
             /\ ms[at + 2].role = "assistant"
             /\ ms[at + 2].content \in Responses
             /\ (last'.mode = "case_prediction" /\ ~model /\ gemini_result # "unavailable")
                    => /\ last'.predictor = "gemini"
                       /\ last'.prediction \in {"Appeal Allowed", "Appeal Dismissed"}
             /\ (last'.saves /\ last'.ok1 /\ last'.ok2) =>
                    \E u \in AddedOfRole("user"), a \in AddedOfRole("assistant") :
                        /\ u.content = last'.user_input
                        /\ a.content = last'.response
                        /\ u._id < a._id
                        /\ u.timestamp < a.timestamp
                        /\ a.prediction = last'.prediction]_vars

\* a turn made with no classifier and a failing generation service has just
\* persisted its two messages, the response carrying the fallback prediction
C24_Witness ==
    /\ last.op = "chat_input"
    /\ last.mode = "case_prediction"
    /\ ~model
    /\ gemini_result = "failing"
    /\ last.saves /\ last.ok1 /\ last.ok2
    /\ last.predictor = "gemini"
    /\ \E a \in chat_collection :
         /\ a.role = "assistant"
         /\ a.prediction = "Appeal Dismissed"
         /\ a.content = session_state.messages[Len(session_state.messages)].content

-----------------------------------------------------------------------------
(* Text extraction feeding ingestion (app.py 486-524, 554-603)               *)
(*                                                                          *)
(* A PDF is the sequence of its pages; a page is known by the length of its *)
(* cleaned native text and by what the OCR branch does for it: it raises    *)
(* (_page_to_image or both image_to_string calls; ocr_raises), or it gives  *)
(* a text of length ocr.  An image file is known by the length of its       *)
(* cleaned OCR text.                                                        *)

\* line 510: len(txt_clean) < 50
MinContent == 50

Native == [native |-> 100, ocr_raises |-> FALSE, ocr |-> 100]
Scanned == [native |-> 0, ocr_raises |-> FALSE, ocr |-> 100]
Blank == [native |-> 0, ocr_raises |-> FALSE, ocr |-> 0]
Unreadable == [native |-> 0, ocr_raises |-> TRUE, ocr |-> 0]
Faint == [native |-> 30, ocr_raises |-> TRUE, ocr |-> 0]

PdfFiles ==
    {<<>>, <<Unreadable>>, <<Native>>, <<Faint>>, <<Blank, Unreadable>>,
     <<Native, Unreadable>>, <<Scanned, Native>>, <<Faint, Native>>}

ImageFiles == {0, 100}

\* faulty variant: a page whose OCR raises gets the empty text
PageText_EmptyOnFailure(pg) ==
    IF pg.native < MinContent
    THEN IF pg.ocr_raises THEN 0 ELSE pg.ocr
    ELSE pg.native

\* lines 507-521: the text of a page, by its length.  The OCR text replaces
\* the native text of a low-text page; when the OCR branch raises, the
\* `except: pass` leaves txt_clean as it was
PageText(pg) ==
    IF pg.native < MinContent
    THEN IF pg.ocr_raises THEN pg.native ELSE pg.ocr
    ELSE pg.native

\* extract_pdf_pages_text_or_ocr (503-524)
extract_pdf_pages_text_or_ocr(file) ==
    [i \in 1..Len(file) |-> [page |-> i, text |-> PageText(file[i])]]

\* lines 557-566: the pages ingestion works on
Extract(file_type, file) ==
    IF file_type \in {"png", "jpg", "jpeg"}
    THEN [file_type |-> file_type, pages |-> <<file>>]
    ELSE LET pages == extract_pdf_pages_text_or_ocr(file)
         IN  [file_type |-> file_type,
              pages |-> [i \in 1..Len(pages) |-> pages[i].text]]

\* a call ingest_document_to_mongo(.., file_bytes, filename, user_id, file_type)
IngestFile(user_id, filename, file_type, file, docOK) ==
    /\ Ingest(user_id, filename, Extract(file_type, file), docOK)
    /\ last' = [op |-> "ingest_document_to_mongo", file_type |-> file_type,
                file |-> file, ext |-> Extract(file_type, file), docOK |-> docOK]
    /\ UNCHANGED <<chunkVars, svcVars, users_collection, race, chat_collection, uiVars>>

InitIngest == IdleChunk /\ IdleRag /\ IdleId /\ IdleUi /\ IdleSvc

NextIngest ==
    \/ \E f \in Filenames, file \in PdfFiles, docOK \in BOOLEAN :
         IngestFile(Owner, f, "pdf", file, docOK)
    \/ \E f \in Filenames, file \in ImageFiles, docOK \in BOOLEAN :
         IngestFile(Owner, f, "png", file, docOK)

SpecIngest == InitIngest /\ [][NextIngest]_vars

-----------------------------------------------------------------------------
(* Claims about ingestion, checked under SpecIngest                          *)

IngestStep == last'.op = "ingest_document_to_mongo"

\* extraction gave no page, or only pages of empty text
NoContent(ext) == \A i \in 1..Len(ext.pages) : ext.pages[i] = 0

\* C17: an ingest whose extraction yields zero pages, or only pages of empty
\* text, returns ok = false and stores no document record and no chunk
\* record.
C17_NoContentIsRefused ==
    [][(IngestStep /\ NoContent(last'.ext)) =>
         /\ ~ingest_ret'.ok
         /\ collection_docs' = collection_docs
         /\ collection_chunks' = collection_chunks]_vars

\* C18: every stored chunk record carries the vector of a successful
\* embedding call (a chunk whose embedding call failed is not stored).
C18_StoredChunksAreEmbedded ==
    \A c \in collection_chunks : c.embedding \in Vecs

\* C19: after a successful ingest, the returned `chunks` is the number of
\* chunk records stored under the returned doc_id, and the returned `pages`
\* is the page_count of the stored document record of that doc_id.
C19_CountsAreActual ==
    ingest_ret.ok =>
        /\ ingest_ret.chunks =
              Cardinality({c \in collection_chunks : c.doc_id = ingest_ret.doc_id})
        /\ \E d \in collection_docs :
              /\ d.doc_id = ingest_ret.doc_id
              /\ d.page_count = ingest_ret.pages

\* a two-page document of two chunks was ingested and one chunk insert failed
C19_Witness ==
    /\ last.op = "ingest_document_to_mongo"
    /\ ingest_ret.ok
    /\ ingest_ret.pages = 2
    /\ ingest_ret.chunks = 1
    /\ \A i \in 1..Len(last.ext.pages) : last.ext.pages[i] # 0

\* the pages of a PDF whose native text is below the threshold and whose
\* OCR raises
OcrFailedPages(file) ==
    {i \in 1..Len(file) : file[i].native < MinContent /\ file[i].ocr_raises}

\* C20 as stated: in a PDF, a page below the threshold whose OCR fails gets
\* the empty text, extraction still gives one entry per page in page order,
\* and the ingest returns ok = true with pages = the page count.
C20_OcrFailureGivesEmptyPage ==
    [][(IngestStep /\ last'.file_type = "pdf" /\ OcrFailedPages(last'.file) # {}) =>
         LET pages == extract_pdf_pages_text_or_ocr(last'.file)
         IN  /\ \A i \in OcrFailedPages(last'.file) : pages[i].text = 0
             /\ Len(pages) = Len(last'.file)
             /\ \A i \in 1..Len(pages) : pages[i].page = i
             /\ ingest_ret'.ok
             /\ ingest_ret'.pages = Len(last'.file)]_vars

\* C20 amended: such a page keeps its cleaned native text (the empty text
\* when it has none), extraction gives one entry per page in page order, and
\* the ingest, when the document record is stored, returns ok = true with
\* pages = the page count.
C20_OcrFailureKeepsNativeText ==
    [][(IngestStep /\ last'.file_type = "pdf" /\ OcrFailedPages(last'.file) # {}) =>
         LET pages == extract_pdf_pages_text_or_ocr(last'.file)
         IN  /\ \A i \in OcrFailedPages(last'.file) :
                    pages[i].text = last'.file[i].native
             /\ Len(pages) = Len(last'.file)
             /\ \A i \in 1..Len(pages) : pages[i].page = i
             /\ last'.ext.pages = [i \in 1..Len(pages) |-> pages[i].text]
             /\ last'.docOK =>
                    /\ ingest_ret'.ok
                    /\ ingest_ret'.pages = Len(last'.file)]_vars

\* a PDF of a faint page, whose OCR raised, and a page of native text has
\* been ingested: two pages, and the faint page's short text made a chunk
C20_Witness ==
    /\ last.op = "ingest_document_to_mongo"
    /\ last.file_type = "pdf"
    /\ last.file = <<Faint, Native>>
    /\ ingest_ret.ok
    /\ ingest_ret.pages = 2
    /\ \E c \in collection_chunks :
         c.doc_id = ingest_ret.doc_id /\ c.page = 1 /\ c.content = <<1, 0, 30>>

-----------------------------------------------------------------------------
(* Further claims about retrieval, checked under SpecRag                     *)

\* C21: vector_search_chunks returns the empty list when the query embedding
\* call or the aggregation raises, and at most k records otherwise.
C21_SearchDegradesToEmpty ==
    search_ret.called =>
        /\ ~search_ret.ok => search_ret.results = <<>>
        /\ Len(search_ret.results) <= search_ret.k

\* a search has just failed although its user owns two indexed chunks
C21_Witness ==
    /\ search_ret.called
    /\ ~search_ret.ok
    /\ search_ret.results = <<>>
    /\ Cardinality({c \in collection_chunks :
                      c.user_id = search_ret.user_id /\ Indexed(c)}) = 2
    /\ search_ret.k = 1

-----------------------------------------------------------------------------
(* Answer synthesis (app.py 642-689)                                         *)
(*                                                                          *)
(* The generation output is a sequence of tokens: the braces, the comma, a  *)
(* word of prose "w", and the members of the requested JSON object: "A" for *)
(* "answer": <string>, "S0" for "sources": [] and "S1" for "sources": [one  *)
(* source object].  What the function returns is a sequence of tokens too:  *)
(* the raw output, or the pieces of the formatted string.                   *)

Tokens == {"{", "}", ",", "w", "A", "S0", "S1"}
Members == {"A", "S0", "S1"}

GenTexts == UNION {[1..n -> Tokens] : n \in 0..MaxTokens}

ErrorText == "Error synthesizing answer"
AnswerText == "answer"
SourcesHeader == "**Top Sources:**"
SourceLine == "- doc p.1 (score 0.900)"

\* text.find(c), 0-based, -1 when absent
Find(t, c) ==
    IF \E i \in 1..Len(t) : t[i] = c
    THEN (CHOOSE i \in 1..Len(t) : t[i] = c /\ \A j \in 1..(i - 1) : t[j] # c) - 1
    ELSE -1

\* text.rfind(c)
RFind(t, c) ==
    IF \E i \in 1..Len(t) : t[i] = c
    THEN (CHOOSE i \in 1..Len(t) : t[i] = c /\ \A j \in (i + 1)..Len(t) : t[j] # c) - 1
    ELSE -1

\* json.loads accepts the span: an object of members separated by commas
\* (a repeated key is accepted, the last one wins)
JsonLoads(span) ==
    /\ Len(span) >= 2
    /\ span[1] = "{"
    /\ span[Len(span)] = "}"
    /\ LET inner == SubSeq(span, 2, Len(span) - 1)
       IN  \/ inner = <<>>
           \/ /\ Len(inner) % 2 = 1
              /\ \A i \in 1..Len(inner) :
                    IF i % 2 = 1 THEN inner[i] \in Members ELSE inner[i] = ","

\* the parsed object: payload.get("answer", "") and payload.get("sources", [])
Payload(span) ==
    LET S == {i \in 1..Len(span) : span[i] \in {"S0", "S1"}}
    IN  [answer |-> IF \E i \in 1..Len(span) : span[i] = "A"
                    THEN <<AnswerText>> ELSE <<>>,
         sources |-> IF S # {} /\ span[CHOOSE i \in S : \A j \in S : j <= i] = "S1"
                     THEN <<SourceLine>> ELSE <<>>]

\* line 686: the answer, the sources header and the source lines
Formatted(payload) == payload.answer \o <<SourcesHeader>> \o payload.sources

\* lines 673-689 on resp.text; raises = generate_content (or resp.text) raises;
\* first is the code's `start`
answer_with_rag(top_chunks, raises, resp_text) ==
    IF raises THEN <<ErrorText>>
    ELSE LET first == Find(resp_text, "{")
             end == RFind(resp_text, "}")
         IN  IF first # -1 /\ end # -1 /\ end > first
             THEN IF JsonLoads(Slice(resp_text, first, end + 1))
                  THEN Formatted(Payload(Slice(resp_text, first, end + 1)))
                  ELSE <<ErrorText>>
             ELSE resp_text

\* the retrieved chunks handed to the call: none, or one
TopChunks == {<<>>, <<[doc_id |-> 1, page |-> 1, score |-> 1, content |-> <<1, 0, 100>>]>>}

\* the call answer_with_rag(question, top_chunks) returns; calls counts the
\* generate_content calls it made (line 674)
AnswerWithRag ==
    /\ last.op = "call answer_with_rag"
    /\ last' = [op |-> "answer_with_rag", top_chunks |-> last.top_chunks,
                raises |-> last.raises, text |-> last.text, calls |-> 1,
                ret |-> answer_with_rag(last.top_chunks, last.raises, last.text)]
    /\ UNCHANGED <<chunkVars, svcVars, ragVars, users_collection, race, chat_collection, uiVars>>

\* every call: the chunks handed in, and what the generation service does
InitAnswer ==
    /\ IdleChunk /\ IdleRag /\ IdleUi /\ IdleSvc
    /\ users_collection = {}
    /\ race = [t \in Threads |-> [pc |-> "idle", args |-> <<>>, ret |-> "-"]]
    /\ chat_collection = {}
    /\ last \in {[op |-> "call answer_with_rag", top_chunks |-> c, raises |-> r,
                   text |-> t] : c \in TopChunks, r \in BOOLEAN, t \in GenTexts}

NextAnswer == AnswerWithRag

SpecAnswer == InitAnswer /\ [][NextAnswer]_vars

-----------------------------------------------------------------------------
(* Claims about answer synthesis, checked under SpecAnswer                   *)

Answered == last.op = "answer_with_rag" /\ ~last.raises

\* the span from the first "{" to the last "}" of a text, <<>> when none
JsonSpan(t) ==
    IF Find(t, "{") # -1 /\ RFind(t, "}") > Find(t, "{")
    THEN Slice(t, Find(t, "{"), RFind(t, "}") + 1)
    ELSE <<>>

Contains(seq, x) == \E i \in 1..Len(seq) : seq[i] = x

\* C22: when the generation output has no span from a first "{" to a last
\* "}", or that span does not parse, answer_with_rag returns the output as it
\* is; and it calls the generation service once.
C22_UnparsedOutputIsReturnedRaw ==
    Answered =>
        /\ last.calls = 1
        /\ (JsonSpan(last.text) = <<>> \/ ~JsonLoads(JsonSpan(last.text)))
              => last.ret = last.text

\* C23: with no retrieved chunks the returned text is not empty (the
\* generation output not being empty) and has no sources section; and a
\* sources section is in the returned text only when the parsed object has a
\* non-empty sources list.
C23_SourcesOnlyWhenPresent ==
    Answered =>
        /\ (last.top_chunks = <<>> /\ last.text # <<>>) =>
              (last.ret # <<>> /\ ~Contains(last.ret, SourcesHeader))
        /\ Contains(last.ret, SourcesHeader) =>
              (/\ JsonSpan(last.text) # <<>>
               /\ Payload(JsonSpan(last.text)).sources # <<>>)

-----------------------------------------------------------------------------
(* chunk_text with any overlap (app.py 526-538)                              *)

\* every call chunk_text(T, size, overlap) with chunk_size >= 1 and
\* overlap >= 0, overlap >= chunk_size included
InitChunkAnyOverlap ==
    /\ arg_text \in Texts(MaxLen)
    /\ chunk_size \in 1..MaxSize
    /\ overlap \in 0..MaxSize
    /\ text = arg_text
    /\ start = 0
    /\ chunks = <<>>
    /\ ct_pc = "entry"
    /\ IdleRag
    /\ IdleId
    /\ IdleUi /\ IdleSvc

\* an iteration of the loop, followed for as long as the list has at most
\* one segment per character of the longest text
ChunkLoopWatched ==
    /\ Len(chunks) <= MaxLen
    /\ ChunkLoop

NextChunkAnyOverlap == ChunkEnter \/ ChunkLoopWatched

SpecChunkAnyOverlap == InitChunkAnyOverlap /\ [][NextChunkAnyOverlap]_vars

\* C25: chunk_text terminates for every text, chunk_size >= 1 and
\* overlap >= 0 (overlap >= chunk_size included), because every iteration
\* that stays in the loop moves the window start strictly forward, so that
\* the list never holds more segments than the text has characters.
C25_StartStrictlyIncreases ==
    [][(ct_pc = "while" /\ ct_pc' = "while") =>
           /\ start' > start
           /\ Len(chunks') <= Len(text)]_vars

-----------------------------------------------------------------------------
(* The sidebar and the upload box of the chat page (app.py 1121-1295,       *)
(* 1387-1501)                                                               *)
(*                                                                          *)
(* A button press is one script run: the handler, then the rest of the      *)
(* script or, after st.rerun(), the whole script again; either way the      *)
(* history part (1337-1364) runs after the sidebar.  Row idx of the code is *)
(* position idx + 1 of the list.                                            *)

\* the script runs of the sidebar and the upload box are followed while the
\* clock they leave is at most this
MaxPageClock == 4

\* the state a script run leaves: st = [ss, db], the texts shown, the call
PageDone(st, texts, call) ==
    /\ st.db.t <= MaxPageClock
    /\ session_state' = st.ss
    /\ chat_collection' = st.db.coll
    /\ next_oid' = st.db.oid
    /\ now' = st.db.t
    /\ next_uuid' = st.db.uuid
    /\ shown' = texts
    /\ last' = call
    /\ ChatFrame

\* line 1121: the sidebar of a logged-in user
PageGuard == session_state.authenticated

\* line 1178: sessions = get_user_sessions(collection, user_info["user_id"])
Rows ==
    IF session_state.user_info = <<>> THEN <<>>
    ELSE FoundSessions(chat_collection, session_state.user_info[1].user_id)

RowIndices == 0..(Len(Rows) - 1)

\* st.session_state.get(f"renaming_{idx}", False), and the same for deleting
Flagged(flags, idx) == \E f \in flags : f.idx = idx

\* st.session_state[f"deleting_{idx}"] = True, pressed on the row of session row
SetFlag(flags, idx, row) ==
    {f \in flags : f.idx # idx} \cup {[idx |-> idx, row |-> row]}

\* st.session_state[f"deleting_{idx}"] = False
ClearFlag(flags, idx) == {f \in flags : f.idx # idx}

\* the session on whose row the button of flag idx was pressed
PressedRow(flags, idx) == (CHOOSE f \in flags : f.idx = idx).row

\* the New Chat button (1128-1134)
NewChat(haveStore, createOK, findOK) ==
    /\ PageGuard
    /\ LET st == [ss |-> [session_state EXCEPT !.current_session_id = NoId,
                                               !.messages = <<>>,
                                               !.messages_loaded = FALSE],
                  db |-> Db]
       IN  PageDone(HistoryPart(st, haveStore, createOK, findOK), <<>>,
                    [op |-> "new_chat"])

\* the load button of row idx (1195-1209)
LoadSession(idx, findOK) ==
    /\ PageGuard
    /\ idx \in RowIndices
    /\ LET selected_session == Rows[idx + 1]
           user_id == session_state.user_info[1].user_id
           session_messages ==
               IF findOK
               THEN FoundMessages(chat_collection, selected_session.session_id, user_id)
               ELSE <<>>
           st == [ss |-> [session_state EXCEPT
                            !.current_session_id = selected_session.session_id,
                            !.messages = LoadedMessages(session_messages),
                            !.messages_loaded = TRUE],
                  db |-> Db]
       IN  PageDone(HistoryPart(st, TRUE, TRUE, TRUE), <<>>,
                    [op |-> "load_session", idx |-> idx,
                     session_id |-> selected_session.session_id])

\* the rename button of row idx (1211-1214)
PressRename(idx, createOK, findOK) ==
    /\ PageGuard
    /\ idx \in RowIndices
    /\ LET st == [ss |-> [session_state EXCEPT
                            !.renaming = SetFlag(@, idx, Rows[idx + 1].session_id)],
                  db |-> Db]
       IN  PageDone(HistoryPart(st, TRUE, createOK, findOK), <<>>,
                    [op |-> "rename", idx |-> idx,
                     session_id |-> Rows[idx + 1].session_id])

\* the delete button of row idx (1215-1218)
PressDelete(idx, createOK, findOK) ==
    /\ PageGuard
    /\ idx \in RowIndices
    /\ LET st == [ss |-> [session_state EXCEPT
                            !.deleting = SetFlag(@, idx, Rows[idx + 1].session_id)],
                  db |-> Db]
       IN  PageDone(HistoryPart(st, TRUE, createOK, findOK), <<>>,
                    [op |-> "delete", idx |-> idx,
                     session_id |-> Rows[idx + 1].session_id])

\* what the user can leave in the rename box
NewNames == {" ", " Renamed "}

\* new_name.strip()
StripName(name) ==
    IF name = " " THEN "" ELSE IF name = " Renamed " THEN "Renamed" ELSE name

\* Save in the rename dialog of row idx (1238-1255)
SaveRename(idx, new_name, storeOK, createOK, findOK) ==
    /\ PageGuard
    /\ idx \in RowIndices
    /\ Flagged(session_state.renaming, idx)
    /\ LET session_id == Rows[idx + 1].session_id
           user_id == session_state.user_info[1].user_id
           valid == new_name # "" /\ StripName(new_name) # ""
           r == IF valid
                THEN rename_session(chat_collection, session_id, user_id,
                                    StripName(new_name), storeOK)
                ELSE [coll |-> chat_collection, ret |-> FALSE]
           st == [ss |-> [session_state EXCEPT
                            !.renaming = IF r.ret THEN ClearFlag(@, idx) ELSE @],
                  db |-> [Db EXCEPT !.coll = r.coll]]
       IN  PageDone(HistoryPart(st, TRUE, createOK, findOK),
                    IF ~valid THEN <<"Please enter a valid name">>
                    ELSE IF r.ret THEN <<>> ELSE <<"Failed to rename session">>,
                    [op |-> "save_rename", idx |-> idx, session_id |-> session_id,
                     user_id |-> user_id,
                     pressed |-> PressedRow(session_state.renaming, idx),
                     called |-> valid, new_name |-> StripName(new_name),
                     storeOK |-> storeOK, ret |-> r.ret])

\* Cancel in the rename dialog of row idx (1256-1259)
CancelRename(idx, createOK, findOK) ==
    /\ PageGuard
    /\ idx \in RowIndices
    /\ Flagged(session_state.renaming, idx)
    /\ LET st == [ss |-> [session_state EXCEPT !.renaming = ClearFlag(@, idx)],
                  db |-> Db]
       IN  PageDone(HistoryPart(st, TRUE, createOK, findOK), <<>>,
                    [op |-> "cancel_rename", idx |-> idx])

\* faulty variant: the deleted session stays the current one
AfterDelete_KeepCurrent(ss, idx, session_id) ==
    [ss EXCEPT !.deleting = ClearFlag(@, idx)]

\* lines 1270-1277: the flag is cleared, and the current session with its
\* messages when it is the deleted one
AfterDelete(ss, idx, session_id) ==
    LET current == ss.current_session_id = session_id
    IN  [ss EXCEPT !.deleting = ClearFlag(@, idx),
                   !.current_session_id = IF current THEN NoId ELSE @,
                   !.messages = IF current THEN <<>> ELSE @,
                   !.messages_loaded = IF current THEN FALSE ELSE @]

\* Yes, Delete in the confirmation of row idx (1261-1278)
ConfirmDelete(idx, storeOK, createOK, findOK) ==
    /\ PageGuard
    /\ idx \in RowIndices
    /\ Flagged(session_state.deleting, idx)
    /\ LET session_id == Rows[idx + 1].session_id
           user_id == session_state.user_info[1].user_id
           r == delete_session(chat_collection, session_id, user_id, storeOK)
           ss == IF r.ret THEN AfterDelete(session_state, idx, session_id)
                 ELSE session_state
           st == [ss |-> ss, db |-> [Db EXCEPT !.coll = r.coll]]
       IN  PageDone(HistoryPart(st, TRUE, createOK, findOK),
                    IF r.ret THEN <<>> ELSE <<"Failed to delete session">>,
                    [op |-> "confirm_delete", idx |-> idx, session_id |-> session_id,
                     user_id |-> user_id,
                     pressed |-> PressedRow(session_state.deleting, idx),
                     storeOK |-> storeOK, ret |-> r.ret])

\* Cancel in the delete confirmation of row idx (1279-1282)
CancelDelete(idx, createOK, findOK) ==
    /\ PageGuard
    /\ idx \in RowIndices
    /\ Flagged(session_state.deleting, idx)
    /\ LET st == [ss |-> [session_state EXCEPT !.deleting = ClearFlag(@, idx)],
                  db |-> Db]
       IN  PageDone(HistoryPart(st, TRUE, createOK, findOK), <<>>,
                    [op |-> "cancel_delete", idx |-> idx])

\* the files a user attaches: a PDF with text and one without
UploadFiles == {<<Native>>, <<Blank>>}

\* line 1477: the length of the joined text of the pages that have text
RECURSIVE JoinedLength(_)
JoinedLength(pages) ==
    IF pages = <<>> THEN 0
    ELSE Head(pages).text + JoinedLength(Tail(pages))

\* a new PDF in the file uploader (1462-1498), in case prediction mode
Upload(filename, file, haveStore, createOK, findOK) ==
    /\ PageGuard
    /\ LET extracted_text == JoinedLength(extract_pdf_pages_text_or_ocr(file))
           loaded == extracted_text > 0
           st == [ss |-> [session_state EXCEPT
                            !.uploaded_doc =
                                IF loaded
                                THEN <<[filename |-> filename, text |-> extracted_text,
                                        bytes |-> file]>>
                                ELSE <<>>],
                  db |-> Db]
       IN  PageDone(HistoryPart(st, haveStore, createOK, findOK),
                    IF loaded THEN <<"Document loaded", filename>>
                    ELSE <<"Failed to extract text from", filename>>,
                    [op |-> "upload", filename |-> filename, loaded |-> loaded])

InitPage ==
    /\ IdleChunk /\ IdleRag /\ IdleUi /\ IdleSvc
    /\ users_collection \in {S \in StoredUsers :
                               Cardinality(S) = 2 /\ \A u \in S : u.is_active}
    /\ last = [op |-> "none"]
    /\ race = [t \in Threads |-> [pc |-> "idle", args |-> <<>>, ret |-> "-"]]
    /\ chat_collection = {}

\* no rename dialog and no delete confirmation is open
NoDialog == session_state.renaming = {} /\ session_state.deleting = {}

\* the sidebar of one user, with a collection, who opens one dialog at a time
NextSidebar ==
    \/ LoginForm("alice", "pw123", TRUE, TRUE, TRUE)
    \/ \E createOK \in BOOLEAN : NewChat(TRUE, createOK, TRUE)
    \/ \E idx \in RowIndices, findOK \in BOOLEAN : LoadSession(idx, findOK)
    \/ \E idx \in RowIndices : NoDialog /\ PressRename(idx, TRUE, TRUE)
    \/ \E idx \in RowIndices : NoDialog /\ PressDelete(idx, TRUE, TRUE)
    \/ \E idx \in RowIndices, n \in NewNames, storeOK \in BOOLEAN :
         SaveRename(idx, n, storeOK, TRUE, TRUE)
    \/ \E idx \in RowIndices : CancelRename(idx, TRUE, TRUE)
    \/ \E idx \in RowIndices, storeOK \in BOOLEAN :
         ConfirmDelete(idx, storeOK, TRUE, TRUE)
    \/ \E idx \in RowIndices : CancelDelete(idx, TRUE, TRUE)

SpecSidebar == InitPage /\ [][NextSidebar]_vars

\* two users, one after the other, attaching documents and chatting with a
\* store that does not fail
NextUpload ==
    \/ \E u \in Usernames : LoginForm(u, "pw123", TRUE, TRUE, TRUE)
    \/ Logout
    \/ \E f \in Filenames, file \in UploadFiles, haveStore \in BOOLEAN :
         Upload(f, file, haveStore, TRUE, TRUE)
    \/ \E c \in Contents, mode \in Modes, haveStore \in BOOLEAN :
         ChatTurn(c, mode, haveStore, TRUE, TRUE, TRUE, TRUE)

SpecUpload == InitPage /\ [][NextUpload]_vars

\* two users, one after the other, starting, loading and deleting sessions
\* and chatting
NextOwn ==
    \/ \E u \in Usernames : LoginForm(u, "pw123", TRUE, TRUE, TRUE)
    \/ Logout
    \/ \E haveStore \in BOOLEAN, createOK \in BOOLEAN :
         NewChat(haveStore, createOK, TRUE)
    \/ \E idx \in RowIndices, findOK \in BOOLEAN : LoadSession(idx, findOK)
    \/ \E idx \in RowIndices : NoDialog /\ PressDelete(idx, TRUE, TRUE)
    \/ \E idx \in RowIndices, storeOK \in BOOLEAN :
         ConfirmDelete(idx, storeOK, TRUE, TRUE)
    \/ \E c \in Contents, mode \in Modes, haveStore \in BOOLEAN, createOK \in BOOLEAN,
          ok1 \in BOOLEAN :
         ChatTurn(c, mode, haveStore, createOK, TRUE, ok1, TRUE)

SpecOwn == InitPage /\ [][NextOwn]_vars

-----------------------------------------------------------------------------
(* Claims about the sidebar, checked under SpecSidebar                       *)

\* C26: rename_session returns True exactly when a session record matching
\* (session_id, user_id) exists and the update changed it: renaming an own
\* session to a different name returns True when the store does not raise,
\* renaming it to the name it already has returns False (modified count 0),
\* and the Save handler reports False as "Failed to rename session".
C26_RenameReportsChange ==
    [][(last'.op = "save_rename" /\ last'.called) =>
         LET m == {r \in chat_collection :
                      RenameFilter(r, last'.session_id, last'.user_id)}
         IN  /\ last'.ret <=> (\E old \in m : old \notin chat_collection')
             /\ (last'.storeOK /\ \E old \in m : old.content # last'.new_name)
                    => last'.ret
             /\ (\A old \in m : old.content = last'.new_name) => ~last'.ret
             /\ last'.ret =>
                    \E r \in chat_collection' :
                        /\ RenameFilter(r, last'.session_id, last'.user_id)
                        /\ r.content = last'.new_name
             /\ ~last'.ret => shown' = <<"Failed to rename session">>]_vars

\* Save has just been pressed with the name the session already has, the
\* store did not raise, and the failure text is shown
C26_Witness ==
    /\ last.op = "save_rename"
    /\ last.called
    /\ last.storeOK
    /\ ~last.ret
    /\ shown = <<"Failed to rename session">>
    /\ \E r \in chat_collection :
         /\ RenameFilter(r, last.session_id, last.user_id)
         /\ r.content = last.new_name
         /\ r.content = "Renamed"

\* C27: the session deleted by "Yes, Delete", and the session renamed by
\* "Save", is the session on whose row the delete (rename) button was
\* pressed, whatever was done in between (New Chat, loading, renaming or
\* deleting other sessions).
C27_ConfirmActsOnPressedRow ==
    [][(last'.op = "confirm_delete" \/ (last'.op = "save_rename" /\ last'.called)) =>
         last'.session_id = last'.pressed]_vars

-----------------------------------------------------------------------------
(* Claims about logout and the attached document, checked under SpecUpload   *)

\* C28: after Logout the session state holds no data of the user who was
\* logged in: authenticated is false, user_info and current_session_id are
\* unset, messages is empty, messages_loaded is cleared, and no uploaded
\* document (text, filename, bytes) remains that could be attached to the
\* conversation of the next user of the browser session.
C28_LogoutLeavesNothing ==
    [][last'.op = "logout" =>
         /\ ~session_state'.authenticated
         /\ session_state'.user_info = <<>>
         /\ session_state'.current_session_id = NoId
         /\ session_state'.messages = <<>>
         /\ ~session_state'.messages_loaded
         /\ session_state'.uploaded_doc = <<>>]_vars

-----------------------------------------------------------------------------
(* Claims about the current session, checked under SpecOwn                   *)

\* the records a step added to the chat collection
Added == chat_collection' \ chat_collection

\* C29: in every state of the page, authenticated implies user_info is set,
\* and a set current_session_id identifies a session record owned by the
\* logged-in user; every message the chat handler persists carries the
\* logged-in user's user_id and the current_session_id; and a session record
\* is created only for an authenticated user, with a store, when
\* current_session_id is unset (at the start of the run, or by the handler
\* of the run), and becomes the current session.
C29_CurrentSessionIsOwn ==
    /\ [](session_state.authenticated => session_state.user_info # <<>>)
    /\ [](session_state.current_session_id # NoId =>
            /\ session_state.authenticated
            /\ \E r \in chat_collection :
                 /\ r.role = "session_start"
                 /\ r.session_id = session_state.current_session_id
                 /\ r.user_id = session_state.user_info[1].user_id)
    /\ [][\A r \in Added :
            /\ session_state'.authenticated
            /\ r.user_id = session_state'.user_info[1].user_id
            /\ r.session_id = session_state'.current_session_id
            /\ r.role \in Roles => last'.op = "chat_input"
            /\ r.role = "session_start" =>
                 \/ session_state.current_session_id = NoId
                 \/ last'.op \in {"new_chat", "confirm_delete"}]_vars

\* bob has just persisted a message in his own current session while a
\* session of alice is in the collection
C29_Witness ==
    /\ last.op = "chat_input"
    /\ session_state.authenticated
    /\ session_state.user_info[1].username = "bob"
    /\ session_state.current_session_id # NoId
    /\ \E r \in chat_collection :
         /\ r.role = "user"
         /\ r.session_id = session_state.current_session_id
    /\ \E r \in chat_collection :
         /\ r.role = "session_start"
         /\ r.user_id # session_state.user_info[1].user_id

-----------------------------------------------------------------------------
(* The legacy app (src/app.py)                                               *)
(*                                                                          *)
(* model is ml_model (loaded or None), session_state holds "messages" once  *)
(* a script run has set it, chat_collection is the one collection of        *)
(* records [timestamp, role, content, prediction].  An exception that no    *)
(* handler catches ends the script run where it is raised.                  *)

LegacyPrompts == {"facts A", "facts B"}
LegacyOutcomes == {"Petitioner Wins", "Respondent Wins"}
LegacyWelcome == "Hello! I am your Legal AI"

\* .limit(10) of the history query (app.py line 142)
LegacyLimit == 10

\* message_doc of the legacy save_message_to_db (app.py 87-92)
LegacyDoc(db, role, content, prediction) ==
    [_id |-> db.oid, timestamp |-> db.t, role |-> role, content |-> content,
     prediction |-> prediction]

\* save_message_to_db (app.py 84-95) on db: the insert, or the warning of
\* the except branch
LegacySave(db, role, content, prediction, storeOK) ==
    [db |-> InsertOne(db, LegacyDoc(db, role, content, prediction), storeOK),
     shown |-> IF storeOK THEN <<>> ELSE <<"DB save failed">>]

\* the first n elements of a sequence
FirstN(seq, n) == SubSeq(seq, 1, IF Len(seq) < n THEN Len(seq) ELSE n)

Reversed(seq) == [i \in 1..Len(seq) |-> seq[Len(seq) + 1 - i]]

\* app.py 142-144: the last ten records, oldest first, as messages
LegacyHistory(coll) ==
    LET db_messages == Reversed(FirstN(SortByTimestamp(coll, -1), LegacyLimit))
    IN  [i \in 1..Len(db_messages) |->
            Msg(db_messages[i].role, db_messages[i].content)]

\* predict_and_explain (app.py 58-82) for a loaded model, with the header
\* and rationale of lines 187-192 and the trailing space stream_response
\* adds to the last chunk (98-102, 195-197)
LegacyResponse(prediction) ==
    IF prediction = "Petitioner Wins"
    THEN "Predicted Outcome: Petitioner Wins; Model Rationale: petitioner "
    ELSE "Predicted Outcome: Respondent Wins; Model Rationale: respondent "

LegacyFrame ==
    UNCHANGED <<chunkVars, svcVars, collection_docs, collection_chunks, ingest_ret,
                search_ret, users_collection, race, next_uuid>>

\* the first script run of a browser session (app.py 136-150): the history
\* is loaded, or the welcome message set
LegacyOpen(haveStore, findOK) ==
    /\ ~session_state.opened
    /\ LET loaded == IF haveStore /\ findOK THEN LegacyHistory(chat_collection)
                     ELSE <<>>
       IN  session_state' =
               [opened |-> TRUE,
                messages |-> IF loaded = <<>>
                             THEN <<Msg("assistant", LegacyWelcome)>>
                             ELSE loaded]
    /\ shown' = <<>>
    /\ last' = [op |-> "open"]
    /\ UNCHANGED <<chat_collection, next_oid, now>>
    /\ LegacyFrame

\* the browser session ends; the next one starts with no "messages" key
LegacyClose ==
    /\ session_state.opened
    /\ session_state' = [opened |-> FALSE, messages |-> <<>>]
    /\ shown' = <<>>
    /\ last' = [op |-> "close"]
    /\ UNCHANGED <<chat_collection, next_oid, now>>
    /\ LegacyFrame

\* the prompt handler (app.py 166-209).  With ml_model None the else branch
\* (203-204) assigns neither full_response nor prediction, and line 207
\* reads full_response: the NameError ends the run after the user message
\* was appended and saved
LegacyPrompt(prompt, outcome, haveStore, ok1, ok2) ==
    /\ session_state.opened
    /\ now <= MaxClock
    /\ Len(session_state.messages) < 2 * MaxTurns
    /\ LET withUser == Append(session_state.messages, Msg("user", prompt))
           s1 == IF haveStore THEN LegacySave(Db, "user", prompt, "None", ok1)
                 ELSE [db |-> Db, shown |-> <<>>]
       IN  IF model
           THEN LET full_response == LegacyResponse(outcome)
                    s2 == IF haveStore
                          THEN LegacySave(s1.db, "assistant", full_response, outcome, ok2)
                          ELSE [db |-> s1.db, shown |-> <<>>]
                IN  /\ session_state' =
                          [session_state EXCEPT
                             !.messages = Append(withUser, Msg("assistant", full_response))]
                    /\ chat_collection' = s2.db.coll
                    /\ next_oid' = s2.db.oid
                    /\ now' = s2.db.t
                    /\ shown' = s1.shown \o s2.shown
                    /\ last' = [op |-> "prompt", prompt |-> prompt, raised |-> FALSE,
                                haveStore |-> haveStore, ok1 |-> ok1, ok2 |-> ok2]
           ELSE /\ session_state' = [session_state EXCEPT !.messages = withUser]
                /\ chat_collection' = s1.db.coll
                /\ next_oid' = s1.db.oid
                /\ now' = s1.db.t
                /\ shown' = s1.shown \o <<"System Error: Cannot generate prediction",
                                          "NameError: name 'full_response' is not defined">>
                /\ last' = [op |-> "prompt", prompt |-> prompt, raised |-> TRUE,
                            haveStore |-> haveStore, ok1 |-> ok1, ok2 |-> ok2]
    /\ LegacyFrame

\* an app with or without its model file, before the first script run
InitLegacy ==
    /\ IdleChunk /\ IdleRag /\ IdleId
    /\ session_state = [opened |-> FALSE, messages |-> <<>>]
    /\ shown = <<>>
    /\ model \in BOOLEAN
    /\ gemini_result = "unavailable"

NextLegacy ==
    \/ \E haveStore \in BOOLEAN, findOK \in BOOLEAN : LegacyOpen(haveStore, findOK)
    \/ LegacyClose
    \/ \E prompt \in LegacyPrompts, outcome \in LegacyOutcomes, haveStore \in BOOLEAN,
          ok1 \in BOOLEAN, ok2 \in BOOLEAN :
         LegacyPrompt(prompt, outcome, haveStore, ok1, ok2)

SpecLegacy == InitLegacy /\ [][NextLegacy]_vars

\* C30: in the legacy app every submitted prompt is handled without an
\* exception and adds exactly one assistant message after the user message
\* to the history in memory, whether or not the ML model is loaded and
\* whether or not the database is connected; a failed save does not abort
\* the turn.
C30_LegacyTurnCompletes ==
    [][last'.op = "prompt" =>
         LET ms == session_state'.messages
             n == Len(session_state.messages)
         IN  /\ ~last'.raised
             /\ Len(ms) = n + 2
             /\ ms[n + 1] = Msg("user", last'.prompt)
             /\ ms[n + 2].role = "assistant"]_vars

====
